---- MODULE Spec2Model ----
(***************************************************************************)
(* A model of the Allure trend analyser,                                   *)
(* src/shared/allure-config/trend-analysis.py (class TrendAnalyzer).       *)
(*                                                                         *)
(* State: the two collections the analyser accumulates (test_results,      *)
(* build_summaries), the wall clock read by datetime.datetime.now(), the   *)
(* last call made on the analyser with what it returned, and the files of  *)
(* the output directory, by name.                                          *)
(*                                                                         *)
(* Python values are written as follows.                                   *)
(*   - str: a TLA+ string; `k in s` and s.lower() work on its characters.  *)
(*   - Optional[str]: None is <<>>, a present string s is <<s>>.           *)
(*   - float: an exact rational [n |-> numerator, d |-> denominator > 0]   *)
(*     in lowest terms.  The one place where the rounding of IEEE doubles  *)
(*     decides an outcome (a regression slope of exactly +-1/10 compared   *)
(*     with the double 0.1) is a nondeterministic input, fp.               *)
(*   - datetime: [day |-> d, ms |-> m], m milliseconds into day d, ordered *)
(*     lexicographically (an epoch-millisecond count does not fit 32 bits).*)
(*   - dict parsed from JSON: a record; a key the JSON lacks is a key the  *)
(*     record lacks, so d.get(k, default) tests k \in DOMAIN d.            *)
(***************************************************************************)
EXTENDS Integers, Sequences, FiniteSets, TLC

VARIABLES test_results, build_summaries, now, call, ret, output_dir

vars == <<test_results, build_summaries, now, call, ret, output_dir>>

(***************************************************************************)
(* Bounds of the model.                                                    *)
(***************************************************************************)
MaxWords == 2
MaxLen == 5
MaxValue == 1
MaxShift == 1
MaxResults == 4
MaxSummaries == 3
MaxRuns == 6
MaxTests == 11
MaxPoints == 6
MaxEntries == 3
MaxCalls == 2





(***************************************************************************)
(* Optional values.                                                        *)
(***************************************************************************)
None == <<>>

Some(x) == <<x>>

(***************************************************************************)
(* Exact rational arithmetic, standing for Python float arithmetic.        *)
(***************************************************************************)
Abs(x) == IF x < 0 THEN -x ELSE x

RECURSIVE Gcd(_, _)
Gcd(a, b) == IF b = 0 THEN a ELSE Gcd(b, a % b)

Rat(n, d) ==
    LET g == Gcd(Abs(n), Abs(d))
        s == IF d < 0 THEN -1 ELSE 1
    IN  [n |-> (s * n) \div g, d |-> (s * d) \div g]

RatInt(i) == [n |-> i, d |-> 1]

RatAdd(p, q) == Rat(p.n * q.d + q.n * p.d, p.d * q.d)

RatNeg(p) == [n |-> -p.n, d |-> p.d]

RatSub(p, q) == RatAdd(p, RatNeg(q))

RatMul(p, q) == Rat(p.n * q.n, p.d * q.d)

RatDiv(p, q) == Rat(p.n * q.d, p.d * q.n)

RatLt(p, q) == p.n * q.d < q.n * p.d

RatLe(p, q) == p.n * q.d <= q.n * p.d

RECURSIVE RatSum(_)
\* sum(s): exact addition is associative, so the list is summed by halves
RatSum(s) ==
    IF s = <<>> THEN RatInt(0)
    ELSE IF Len(s) = 1 THEN s[1]
    ELSE LET half == Len(s) \div 2
         IN  RatAdd(RatSum(SubSeq(s, 1, half)), RatSum(SubSeq(s, half + 1, Len(s))))

\* statistics.mean(values), for a non-empty list
Mean(s) == RatDiv(RatSum(s), RatInt(Len(s)))

(***************************************************************************)
(* Strings: str.lower() and the substring test `keyword in text`.          *)
(***************************************************************************)
UpperCase == "ABCDEFGHIJKLMNOPQRSTUVWXYZ"

LowerCase == "abcdefghijklmnopqrstuvwxyz"

\* the upper-case letters, each with its lower-case letter
LowerTable ==
    [c \in {SubSeq(UpperCase, i, i) : i \in 1..Len(UpperCase)} |->
        LET i == CHOOSE j \in 1..Len(UpperCase) : SubSeq(UpperCase, j, j) = c
        IN  SubSeq(LowerCase, i, i)]

LowerChar(c) == IF c \in DOMAIN LowerTable THEN LowerTable[c] ELSE c

RECURSIVE Lower(_)
Lower(s) ==
    IF Len(s) = 0 THEN ""
    ELSE LowerChar(SubSeq(s, 1, 1)) \o Lower(SubSeq(s, 2, Len(s)))

Contains(s, keyword) ==
    \E i \in 1..(Len(s) - Len(keyword) + 1) :
        SubSeq(s, i, i + Len(keyword) - 1) = keyword

(***************************************************************************)
(* TrendAnalyzer._categorize_test                                          *)
(***************************************************************************)
ProductKeywords == {"assertion", "expect", "should"}

TestDefectKeywords == {"typeerror", "referenceerror", "syntaxerror", "importerror"}

InfrastructureKeywords == {"timeout", "connection", "network", "server"}

PerformanceKeywords == {"performance", "slow", "memory"}

AnyKeyword(error_lower, keywords) == \E k \in keywords : Contains(error_lower, k)

\* `not error_message`: None or the empty string
NoErrorText(error_message) == error_message = None \/ error_message[1] = ""

\* the keyword rules, applied to the lower-cased error text
ErrorCategory(error_lower) ==
    IF AnyKeyword(error_lower, ProductKeywords) THEN "product_defect"
    ELSE IF AnyKeyword(error_lower, TestDefectKeywords) THEN "test_defect"
    ELSE IF AnyKeyword(error_lower, InfrastructureKeywords) THEN "infrastructure"
    ELSE IF AnyKeyword(error_lower, PerformanceKeywords) THEN "performance"
    ELSE "other_failure"

\* variant: the infrastructure rule is tried before the product-defect rule
CategorizeInfrastructureFirst(name, status, error_message) ==
    IF status = "passed" THEN "passed"
    ELSE IF NoErrorText(error_message) THEN "unknown_failure"
    ELSE IF AnyKeyword(Lower(error_message[1]), InfrastructureKeywords)
    THEN "infrastructure"
    ELSE ErrorCategory(Lower(error_message[1]))

\* variant: only None counts as no error text
CategorizeEmptyIsText(name, status, error_message) ==
    IF status = "passed" THEN "passed"
    ELSE IF error_message = None THEN "unknown_failure"
    ELSE ErrorCategory(Lower(error_message[1]))

_categorize_test(name, status, error_message) ==
    IF status = "passed" THEN "passed"
    ELSE IF NoErrorText(error_message) THEN "unknown_failure"
    ELSE ErrorCategory(Lower(error_message[1]))

(***************************************************************************)
(* TrendAnalyzer._analyze_trend                                            *)
(*                                                                         *)
(* The slope is numerator / denominator in IEEE doubles, compared with the *)
(* double 0.1.  Whenever the exact slope differs from +-1/10 the rounding  *)
(* error is far too small to change the comparison, so the exact rational  *)
(* decides.  When the exact slope is +-1/10 the rounding decides: the      *)
(* code returns "stable" on [0, 0, 0, 1, 0] (computed slope 0.1) and       *)
(* "improving" on [0, 0, 1, 1, 0] (computed slope 0.10000000000000002),    *)
(* both of exact slope 1/10.  fp is on which side of the threshold the     *)
(* computed slope falls in that case: -1 below, 0 on it, 1 above.  It is a *)
(* property of the computed slope, so the negation under reverse negates   *)
(* it too.                                                                 *)
(***************************************************************************)
FpSigns == {-1, 0, 1}

\* computed > threshold, for a computed value of exact value x
FloatGt(x, fp, threshold) == RatLt(threshold, x) \/ (x = threshold /\ fp > 0)

\* computed < threshold
FloatLt(x, fp, threshold) == RatLt(x, threshold) \/ (x = threshold /\ fp < 0)

\* x_mean = (n - 1) / 2, the mean of the list indices 0..n-1
XMean(n) == Rat(n - 1, 2)

\* variant: the values are not centred on their mean, nor the indices on theirs
NumeratorUncentred(values) ==
    RatSum([i \in 1..Len(values) |-> RatMul(RatInt(i - 1), values[i])])

\* sum((i - x_mean) * (values[i] - y_mean) for i in range(n))
Numerator(values) ==
    LET n == Len(values)
        y_mean == Mean(values)
    IN  RatSum([i \in 1..n |->
                   RatMul(RatSub(RatInt(i - 1), XMean(n)), RatSub(values[i], y_mean))])

\* sum((i - x_mean) ** 2 for i in range(n))
Denominator(n) ==
    RatSum([i \in 1..n |->
               RatMul(RatSub(RatInt(i - 1), XMean(n)), RatSub(RatInt(i - 1), XMean(n)))])

\* threshold = 0.1
Threshold == Rat(1, 10)

\* numerator / denominator, exactly
Slope(values) == RatDiv(Numerator(values), Denominator(Len(values)))

\* the values of fp that make a difference on this series
FpChoices(values) ==
    IF Len(values) < 3 THEN {0}
    ELSE LET slope == Slope(values)
         IN  IF slope = Threshold \/ slope = RatNeg(Threshold) THEN FpSigns ELSE {0}

\* variant: the thresholds themselves count as a change of direction
DirectionInclusive(slope, fp) ==
    IF FloatGt(slope, fp, Threshold) \/ (slope = Threshold /\ fp = 0) THEN "improving"
    ELSE IF FloatLt(slope, fp, RatNeg(Threshold)) \/ (slope = RatNeg(Threshold) /\ fp = 0)
    THEN "declining"
    ELSE "stable"

\* the direction of a computed slope of exact value slope
Direction(slope, fp) ==
    IF FloatGt(slope, fp, Threshold) THEN "improving"
    ELSE IF FloatLt(slope, fp, RatNeg(Threshold)) THEN "declining"
    ELSE "stable"

\* variant: a series of 3 values is still too short
AnalyzeTrendNeedsFour(values, reverse, fp) ==
    IF Len(values) <= 3 THEN "unknown"
    ELSE IF Denominator(Len(values)) = RatInt(0) THEN "stable"
    ELSE IF reverse THEN Direction(RatNeg(Slope(values)), -fp)
    ELSE Direction(Slope(values), fp)

\* variant: reverse is ignored
AnalyzeTrendIgnoresReverse(values, reverse, fp) ==
    IF Len(values) < 3 THEN "unknown"
    ELSE IF Denominator(Len(values)) = RatInt(0) THEN "stable"
    ELSE Direction(Slope(values), fp)

_analyze_trend(values, reverse, fp) ==
    IF Len(values) < 3 THEN "unknown"
    ELSE IF Denominator(Len(values)) = RatInt(0) THEN "stable"
    ELSE IF reverse THEN Direction(RatNeg(Slope(values)), -fp)
    ELSE Direction(Slope(values), fp)

(***************************************************************************)
(* datetime values and the JSON epoch-millisecond numbers they come from.  *)
(***************************************************************************)
MsPerDay == 24 * 60 * 60 * 1000

Epoch == [day |-> 0, ms |-> 0]

TimeLe(a, b) == a.day < b.day \/ (a.day = b.day /\ a.ms <= b.ms)

TimeLt(a, b) == a.day < b.day \/ (a.day = b.day /\ a.ms < b.ms)

\* datetime.datetime.now() - datetime.timedelta(days=days_back)
CutoffDate(clock, days_back) == [day |-> clock.day - days_back, ms |-> clock.ms]

\* stop_time - start_time, in milliseconds
MsBetween(start_time, stop_time) ==
    (stop_time.day - start_time.day) * MsPerDay + (stop_time.ms - start_time.ms)

(***************************************************************************)
(* Lists.                                                                  *)
(***************************************************************************)
\* the distinct elements of s in the order of their first occurrence: the key
\* order of a dict, defaultdict or Counter filled while iterating over s
FirstSeen(s) ==
    LET first == {i \in 1..Len(s) : \A j \in 1..(i - 1) : s[j] # s[i]}
    IN  [k \in 1..Cardinality(first) |->
            s[CHOOSE i \in first : Cardinality({j \in first : j <= i}) = k]]

Count(s, x) == Cardinality({i \in 1..Len(s) : s[i] = x})

\* s[:k]
Take(s, k) == SubSeq(s, 1, IF Len(s) < k THEN Len(s) ELSE k)

RECURSIVE InsertByTimestamp(_, _)
\* x put after every element whose timestamp is not later than its own
InsertByTimestamp(sorted, x) ==
    IF sorted = <<>> THEN <<x>>
    ELSE IF TimeLe(sorted[Len(sorted)].timestamp, x.timestamp) THEN Append(sorted, x)
    ELSE Append(InsertByTimestamp(SubSeq(sorted, 1, Len(sorted) - 1), x),
                sorted[Len(sorted)])

RECURSIVE SortByTimestamp(_)
\* list.sort(key=lambda x: x.timestamp): ascending and stable
SortByTimestamp(s) ==
    IF s = <<>> THEN <<>>
    ELSE InsertByTimestamp(SortByTimestamp(SubSeq(s, 1, Len(s) - 1)), s[Len(s)])

(***************************************************************************)
(* TrendAnalyzer._parse_test_result                                        *)
(***************************************************************************)
\* d.get(key, default)
Get(d, key, default) == IF key \in DOMAIN d THEN d[key] ELSE default

\* {label['name']: label['value'] for label in ...} raises KeyError on a label
\* that lacks either key
LabelsRaise(labels) ==
    \E i \in 1..Len(labels) :
        "name" \notin DOMAIN labels[i] \/ "value" \notin DOMAIN labels[i]

\* labels.get(key, default) on the dict built from the list: the last label of
\* that name wins
LabelGet(labels, key, default) ==
    LET at == {i \in 1..Len(labels) : labels[i].name = key}
    IN  IF at = {} THEN default
        ELSE labels[CHOOSE i \in at : \A j \in at : j <= i].value

\* the statusDetails message, None when the record has none
ErrorMessage(data) ==
    IF "statusDetails" \in DOMAIN data /\ "message" \in DOMAIN data.statusDetails
    THEN Some(data.statusDetails.message)
    ELSE None

\* the TestResult of a record whose labels are well formed; category_status is
\* the status handed to _categorize_test
TestResultOf(data, framework, clock, category_status) ==
    LET name == Get(data, "fullName", Get(data, "name", "Unknown"))
        start_time == Get(data, "start", Epoch)
        stop_time == Get(data, "stop", Epoch)
        labels == Get(data, "labels", <<>>)
    IN  [name |-> name,
         status |-> Lower(Get(data, "status", "unknown")),
         duration |-> Rat(MsBetween(start_time, stop_time), 1000),
         timestamp |-> IF start_time # Epoch THEN start_time ELSE clock,
         build_number |-> LabelGet(labels, "build", "unknown"),
         branch |-> LabelGet(labels, "branch", "unknown"),
         framework |-> LabelGet(labels, "framework", framework),
         error_message |-> ErrorMessage(data),
         category |-> _categorize_test(name, category_status, ErrorMessage(data))]

\* variant: the test is categorized by the status as the record spells it
ParseCategorizesRawStatus(data, framework, clock) ==
    IF LabelsRaise(Get(data, "labels", <<>>)) THEN None
    ELSE Some(TestResultOf(data, framework, clock, Get(data, "status", "unknown")))

\* variant: a label without name or value is passed over, and the record kept
ParseSkipsBadLabels(data, framework, clock) ==
    LET labels == Get(data, "labels", <<>>)
        kept == SelectSeq(labels, LAMBDA l : {"name", "value"} \subseteq DOMAIN l)
        cleaned == [k \in DOMAIN data \cup {"labels"} |->
                       IF k = "labels" THEN kept ELSE data[k]]
    IN  Some(TestResultOf(cleaned, framework, clock,
                          Lower(Get(data, "status", "unknown"))))

\* variant: a record without a framework label is of framework 'unknown'
ParseFrameworkUnknown(data, framework, clock) ==
    IF LabelsRaise(Get(data, "labels", <<>>)) THEN None
    ELSE Some(TestResultOf(data, "unknown", clock,
                           Lower(Get(data, "status", "unknown"))))

\* None when the body raises (the except clause returns None), else the
\* TestResult, wrapped
_parse_test_result(data, framework, clock) ==
    IF LabelsRaise(Get(data, "labels", <<>>)) THEN None
    ELSE Some(TestResultOf(data, framework, clock,
                           Lower(Get(data, "status", "unknown"))))

(***************************************************************************)
(* TrendAnalyzer._load_build_summaries.  The executor.json and             *)
(* environment.properties it reads fill build_info, which nothing uses.    *)
(***************************************************************************)
CountStatus(results, status) ==
    Cardinality({i \in 1..Len(results) : results[i].status = status})

\* max(r.timestamp for r in results)
MaxTimestamp(results) ==
    LET timestamps == {results[i].timestamp : i \in 1..Len(results)}
    IN  CHOOSE t \in timestamps : \A u \in timestamps : TimeLe(u, t)

\* passed / total * 100 if total > 0 else 0
PassRate(passed_tests, total_tests) ==
    IF total_tests > 0 THEN Rat(passed_tests * 100, total_tests) ELSE RatInt(0)

\* variant: a broken test is counted as failed too
SummarizeBrokenAsFailed(build_number, results) ==
    [build_number |-> build_number,
     timestamp |-> MaxTimestamp(results),
     branch |-> results[1].branch,
     framework |-> results[1].framework,
     total_tests |-> Len(results),
     passed_tests |-> CountStatus(results, "passed"),
     failed_tests |-> CountStatus(results, "failed") + CountStatus(results, "broken"),
     skipped_tests |-> CountStatus(results, "skipped"),
     broken_tests |-> CountStatus(results, "broken"),
     duration |-> RatSum([i \in 1..Len(results) |-> results[i].duration]),
     pass_rate |-> PassRate(CountStatus(results, "passed"), Len(results))]

\* variant: the timestamp is that of the first result of the build
SummarizeAtFirstTimestamp(build_number, results) ==
    [build_number |-> build_number,
     timestamp |-> results[1].timestamp,
     branch |-> results[1].branch,
     framework |-> results[1].framework,
     total_tests |-> Len(results),
     passed_tests |-> CountStatus(results, "passed"),
     failed_tests |-> CountStatus(results, "failed"),
     skipped_tests |-> CountStatus(results, "skipped"),
     broken_tests |-> CountStatus(results, "broken"),
     duration |-> RatSum([i \in 1..Len(results) |-> results[i].duration]),
     pass_rate |-> PassRate(CountStatus(results, "passed"), Len(results))]

\* the BuildSummary of the results of one build
Summarize(build_number, results) ==
    [build_number |-> build_number,
     timestamp |-> MaxTimestamp(results),
     branch |-> results[1].branch,
     framework |-> results[1].framework,
     total_tests |-> Len(results),
     passed_tests |-> CountStatus(results, "passed"),
     failed_tests |-> CountStatus(results, "failed"),
     skipped_tests |-> CountStatus(results, "skipped"),
     broken_tests |-> CountStatus(results, "broken"),
     duration |-> RatSum([i \in 1..Len(results) |-> results[i].duration]),
     pass_rate |-> PassRate(CountStatus(results, "passed"), Len(results))]

\* builds[build_number]: the results of that build, in list order
BuildResults(results, build_number) ==
    SelectSeq(results, LAMBDA r : r.build_number = build_number)

\* one summary per build of results, in the order the builds are first met
AggregatedSummaries(results) ==
    LET keys == FirstSeen([i \in 1..Len(results) |-> results[i].build_number])
    IN  [k \in 1..Len(keys) |-> Summarize(keys[k], BuildResults(results, keys[k]))]

\* a label value that is a JSON array: json.load makes a list of it, which
\* cannot be a key of a dict.  The model writes it as this string, and no
\* input uses the string for anything else.
JsonList == "<list>"

\* builds[result.build_number] raises TypeError (unhashable type) on a result
\* whose build label is a list
AggregationRaises(results) ==
    \E i \in 1..Len(results) : results[i].build_number = JsonList

\* build_summaries after the call: the new summaries appended, the whole sorted;
\* when the grouping raises nothing has been appended yet
_load_build_summaries(results, summaries) ==
    IF AggregationRaises(results) THEN summaries
    ELSE SortByTimestamp(summaries \o AggregatedSummaries(results))

(***************************************************************************)
(* TrendAnalyzer._parse_history_data                                       *)
(***************************************************************************)
\* JSON null where an object is expected
JsonNull == [json |-> "null"]

\* build_data.get('time', {}).get(...) and statistic.get(...) raise
\* AttributeError on null
HistoryEntryRaises(build_data) ==
    \/ Get(build_data, "time", <<>>) = JsonNull
    \/ Get(build_data, "statistic", <<>>) = JsonNull

\* str(build_data.get('buildOrder', 'unknown')), buildOrder being a JSON number
BuildOrderStr(build_data) ==
    IF "buildOrder" \in DOMAIN build_data THEN ToString(build_data.buildOrder)
    ELSE "unknown"

\* the BuildSummary of one well-formed history entry
HistorySummary(build_data, framework, clock) ==
    LET time == Get(build_data, "time", <<>>)
        timestamp_ms == Get(time, "start", Epoch)
        statistic == Get(build_data, "statistic", <<>>)
        total_tests == Get(statistic, "total", 0)
        passed_tests == Get(statistic, "passed", 0)
    IN  [build_number |-> BuildOrderStr(build_data),
         timestamp |-> IF timestamp_ms # Epoch THEN timestamp_ms ELSE clock,
         branch |-> "unknown",
         framework |-> framework,
         total_tests |-> total_tests,
         passed_tests |-> passed_tests,
         failed_tests |-> Get(statistic, "failed", 0),
         skipped_tests |-> Get(statistic, "skipped", 0),
         broken_tests |-> Get(statistic, "broken", 0),
         duration |-> Rat(Get(time, "duration", 0), 1000),
         pass_rate |-> PassRate(passed_tests, total_tests)]

RECURSIVE ParseHistoryStopsAtError(_, _, _, _)
\* variant: the first entry that raises ends the import
ParseHistoryStopsAtError(history_data, summaries, framework, clock) ==
    IF history_data = <<>> THEN summaries
    ELSE IF HistoryEntryRaises(Head(history_data)) THEN summaries
    ELSE ParseHistoryStopsAtError(
             Tail(history_data),
             Append(summaries, HistorySummary(Head(history_data), framework, clock)),
             framework, clock)

RECURSIVE _parse_history_data(_, _, _, _)
\* build_summaries after the call: an entry that raises is skipped, every other
\* entry appends its summary; nothing is sorted
_parse_history_data(history_data, summaries, framework, clock) ==
    IF history_data = <<>> THEN summaries
    ELSE _parse_history_data(
             Tail(history_data),
             IF HistoryEntryRaises(Head(history_data)) THEN summaries
             ELSE Append(summaries, HistorySummary(Head(history_data), framework, clock)),
             framework, clock)

(***************************************************************************)
(* The four sub-analyses of analyze_trends.  Each reads the clock itself.  *)
(***************************************************************************)
\* [r for r in self.test_results if r.timestamp >= cutoff_date]
RecentResults(results, clock, days_back) ==
    SelectSeq(results, LAMBDA r : TimeLe(CutoffDate(clock, days_back), r.timestamp))

Names(results) == FirstSeen([i \in 1..Len(results) |-> results[i].name])

ResultsOf(results, name) == SelectSeq(results, LAMBDA r : r.name = name)

Min(S) == CHOOSE x \in S : \A y \in S : x <= y

\* variant: the ratio has to exceed 0.2
IsFlakyStrict(statuses) ==
    LET outcomes == {statuses[i] : i \in 1..Len(statuses)}
    IN  /\ Cardinality(outcomes) > 1
        /\ Len(statuses) >= 3
        /\ LET minority_count == Min({Count(statuses, o) : o \in outcomes})
           IN  RatLt(Rat(1, 5), Rat(minority_count, Len(statuses)))

\* flakiness_ratio >= 0.2 for a test of at least 3 runs and of several outcomes
IsFlaky(statuses) ==
    LET outcomes == {statuses[i] : i \in 1..Len(statuses)}
    IN  /\ Cardinality(outcomes) > 1
        /\ Len(statuses) >= 3
        /\ LET minority_count == Min({Count(statuses, o) : o \in outcomes})
           IN  RatLe(Rat(1, 5), Rat(minority_count, Len(statuses)))

\* variant: the ten names encountered last
IdentifyFlakyLastTen(results, clock, days_back) ==
    LET recent_results == RecentResults(results, clock, days_back)
        flaky_tests ==
            SelectSeq(Names(recent_results),
                      LAMBDA n : LET rs == ResultsOf(recent_results, n)
                                 IN  IsFlaky([i \in 1..Len(rs) |-> rs[i].status]))
    IN  SubSeq(flaky_tests,
               IF Len(flaky_tests) > 10 THEN Len(flaky_tests) - 9 ELSE 1,
               Len(flaky_tests))

_identify_flaky_tests(results, clock, days_back) ==
    LET recent_results == RecentResults(results, clock, days_back)
        flaky_tests ==
            SelectSeq(Names(recent_results),
                      LAMBDA n : LET rs == ResultsOf(recent_results, n)
                                 IN  IsFlaky([i \in 1..Len(rs) |-> rs[i].status]))
    IN  Take(flaky_tests, 10)

RECURSIVE InsertByCountAhead(_, _)
\* variant: x put ahead of the pairs of its own count
InsertByCountAhead(sorted, x) ==
    IF sorted = <<>> THEN <<x>>
    ELSE IF sorted[Len(sorted)][2] > x[2] THEN Append(sorted, x)
    ELSE Append(InsertByCountAhead(SubSeq(sorted, 1, Len(sorted) - 1), x),
                sorted[Len(sorted)])

RECURSIVE InsertByCount(_, _)
\* x put after every pair whose count is not smaller than its own
InsertByCount(sorted, x) ==
    IF sorted = <<>> THEN <<x>>
    ELSE IF sorted[Len(sorted)][2] >= x[2] THEN Append(sorted, x)
    ELSE Append(InsertByCount(SubSeq(sorted, 1, Len(sorted) - 1), x),
                sorted[Len(sorted)])

RECURSIVE SortByCountDesc(_)
\* Counter.most_common: descending count, equal counts in insertion order
SortByCountDesc(s) ==
    IF s = <<>> THEN <<>>
    ELSE InsertByCount(SortByCountDesc(SubSeq(s, 1, Len(s) - 1)), s[Len(s)])

_identify_most_failed_tests(results, clock, days_back) ==
    LET recent_results ==
            SelectSeq(RecentResults(results, clock, days_back),
                      LAMBDA r : r.status = "failed")
        names == Names(recent_results)
        failure_counts ==
            [k \in 1..Len(names) |->
                <<names[k], Len(ResultsOf(recent_results, names[k]))>>]
    IN  Take(SortByCountDesc(failure_counts), 10)

\* variant: the results that did not pass are counted, broken ones included
AnalyzeCategoriesOfNonPassed(results, clock, days_back) ==
    LET recent_results ==
            SelectSeq(RecentResults(results, clock, days_back),
                      LAMBDA r : r.status # "passed")
        categories == {recent_results[i].category : i \in 1..Len(recent_results)}
    IN  [c \in categories |->
            Cardinality({i \in 1..Len(recent_results) : recent_results[i].category = c})]

\* a dict, as the function from its keys
_analyze_failure_categories(results, clock, days_back) ==
    LET recent_results ==
            SelectSeq(RecentResults(results, clock, days_back),
                      LAMBDA r : r.status = "failed")
        categories == {recent_results[i].category : i \in 1..Len(recent_results)}
    IN  [c \in categories |->
            Cardinality({i \in 1..Len(recent_results) : recent_results[i].category = c})]

\* durations[:mid_point] and durations[mid_point:] of the data sorted by timestamp
EarlyDurations(duration_data) ==
    LET sorted == SortByTimestamp(duration_data)
    IN  [i \in 1..(Len(sorted) \div 2) |-> sorted[i].duration]

RecentDurations(duration_data) ==
    LET sorted == SortByTimestamp(duration_data)
        mid_point == Len(sorted) \div 2
    IN  [i \in 1..(Len(sorted) - mid_point) |-> sorted[mid_point + i].duration]

RECURSIVE IsPowerOfTwo(_)
IsPowerOfTwo(d) == d = 1 \/ (d % 2 = 0 /\ IsPowerOfTwo(d \div 2))

\* x is a double exactly
IsDouble(x) == IsPowerOfTwo(x.d)

\* The doubles recent_avg and early_avg * 1.5 are compared.  When the exact
\* values differ the rounding cannot change the comparison; when they are equal
\* and everything is a double exactly, so are the computed values; when they
\* are equal and something is rounded, the computed values may fall either
\* way: the code flags durations 0.9, 0.9, 1.8 followed by 1.8, 1.8, 1.8
\* (1.2 * 1.5 is 1.7999999999999998).  fp is the side on which the computed
\* recent_avg falls of the computed early_avg * 1.5 in that case.
RegressionFpChoices(duration_data) ==
    IF Len(duration_data) < 5 THEN {0}
    ELSE LET early_avg == Mean(EarlyDurations(duration_data))
             recent_avg == Mean(RecentDurations(duration_data))
         IN  IF /\ recent_avg = RatMul(early_avg, Rat(3, 2))
                /\ \/ ~IsDouble(early_avg)
                   \/ ~IsDouble(recent_avg)
                   \/ \E i \in 1..Len(duration_data) :
                         ~IsDouble(duration_data[i].duration)
             THEN FpSigns
             ELSE {0}

\* variant: a recent average of one second is enough
IsRegressionFromOneSecond(duration_data, fp) ==
    /\ Len(duration_data) >= 5
    /\ LET early_avg == Mean(EarlyDurations(duration_data))
           recent_avg == Mean(RecentDurations(duration_data))
       IN  /\ FloatGt(recent_avg, fp, RatMul(early_avg, Rat(3, 2)))
           /\ RatLe(RatInt(1), recent_avg)

\* recent_avg > early_avg * 1.5 and recent_avg > 1.0, for a test of at least
\* 5 data points.  A mean of non-negative doubles whose exact value is 1 is
\* never computed above 1.0, so the second comparison is the exact one.
IsRegression(duration_data, fp) ==
    /\ Len(duration_data) >= 5
    /\ LET early_avg == Mean(EarlyDurations(duration_data))
           recent_avg == Mean(RecentDurations(duration_data))
       IN  /\ FloatGt(recent_avg, fp, RatMul(early_avg, Rat(3, 2)))
           /\ RatLt(RatInt(1), recent_avg)

\* the roundings that can occur, one per test name of the window
RegressionFps(results, clock, days_back) ==
    LET recent_results == RecentResults(results, clock, days_back)
        names == {recent_results[i].name : i \in 1..Len(recent_results)}
        rounded == {n \in names :
                       RegressionFpChoices(ResultsOf(recent_results, n)) # {0}}
    IN  {[n \in names |-> IF n \in rounded THEN g[n] ELSE 0] :
            g \in [rounded -> FpSigns]}

\* variant: every regression is returned
IdentifyRegressionsUncapped(results, clock, days_back, fp) ==
    LET recent_results == RecentResults(results, clock, days_back)
    IN  SelectSeq(Names(recent_results),
                  LAMBDA n : IsRegression(ResultsOf(recent_results, n), fp[n]))

\* fp: the rounding of the comparison, by test name
_identify_performance_regressions(results, clock, days_back, fp) ==
    LET recent_results == RecentResults(results, clock, days_back)
        regressions ==
            SelectSeq(Names(recent_results),
                      LAMBDA n : IsRegression(ResultsOf(recent_results, n), fp[n]))
    IN  Take(regressions, 10)

(***************************************************************************)
(* TrendAnalyzer.analyze_trends                                            *)
(***************************************************************************)
ZeroMetrics ==
    [average_pass_rate |-> RatInt(0),
     pass_rate_trend |-> "unknown",
     average_duration |-> RatInt(0),
     duration_trend |-> "unknown",
     total_builds |-> 0,
     flaky_tests |-> <<>>,
     most_failed_tests |-> <<>>,
     failure_categories |-> <<>>,
     performance_regressions |-> <<>>]

\* variant: of the builds in the window, one summary per build_number is kept
RecentBuildsDistinct(summaries, clock, days_back) ==
    LET recent == SelectSeq(summaries,
                            LAMBDA b : TimeLe(CutoffDate(clock, days_back), b.timestamp))
        first == {i \in 1..Len(recent) :
                     \A j \in 1..(i - 1) : recent[j].build_number # recent[i].build_number}
    IN  [k \in 1..Cardinality(first) |->
            recent[CHOOSE i \in first : Cardinality({j \in first : j <= i}) = k]]

\* [b for b in self.build_summaries if b.timestamp >= cutoff_date]
RecentBuilds(summaries, clock, days_back) ==
    SelectSeq(summaries, LAMBDA b : TimeLe(CutoffDate(clock, days_back), b.timestamp))

PassRates(builds) == [i \in 1..Len(builds) |-> builds[i].pass_rate]

Durations(builds) == [i \in 1..Len(builds) |-> builds[i].duration]

\* the TrendMetrics of a non-empty list of recent builds
Metrics(results, recent_builds, clock, days_back, fp_pass, fp_duration, fp_regression) ==
    [average_pass_rate |-> Mean(PassRates(recent_builds)),
     pass_rate_trend |-> _analyze_trend(PassRates(recent_builds), FALSE, fp_pass),
     average_duration |-> Mean(Durations(recent_builds)),
     duration_trend |-> _analyze_trend(Durations(recent_builds), TRUE, fp_duration),
     total_builds |-> Len(recent_builds),
     flaky_tests |-> _identify_flaky_tests(results, clock, days_back),
     most_failed_tests |-> _identify_most_failed_tests(results, clock, days_back),
     failure_categories |-> _analyze_failure_categories(results, clock, days_back),
     performance_regressions |->
         _identify_performance_regressions(results, clock, days_back,
                                           fp_regression)]

\* variant: with no recent build, the builds held are still counted
AnalyzeTrendsCountsAll(results, summaries, clock, days_back, fp_pass, fp_duration, fp_regression) ==
    IF summaries = <<>> THEN ZeroMetrics
    ELSE IF RecentBuilds(summaries, clock, days_back) = <<>>
    THEN [ZeroMetrics EXCEPT !.total_builds = Len(summaries)]
    ELSE Metrics(results, RecentBuilds(summaries, clock, days_back), clock, days_back,
                 fp_pass, fp_duration, fp_regression)

\* fp_pass and fp_duration: the rounding of the two slopes (see _analyze_trend);
\* fp_regression: that of the comparisons of _identify_performance_regressions
analyze_trends(results, summaries, clock, days_back, fp_pass, fp_duration, fp_regression) ==
    IF summaries = <<>> THEN ZeroMetrics
    ELSE IF RecentBuilds(summaries, clock, days_back) = <<>> THEN ZeroMetrics
    ELSE Metrics(results, RecentBuilds(summaries, clock, days_back), clock, days_back,
                 fp_pass, fp_duration, fp_regression)

(***************************************************************************)
(* TrendAnalyzer.load_results_from_directory and                           *)
(* load_history_from_directory, as functions of what the directory holds.  *)
(*                                                                         *)
(* A results directory is [exists |-> FALSE] or [exists |-> TRUE, files    *)
(* |-> the *-result.json files in the order glob yields them]; a file is   *)
(* None when open or json.load raises on it, else its JSON object, wrapped.*)
(* A history directory is [exists |-> FALSE] or [exists |-> TRUE, file |->  *)
(* "absent", "unreadable" or "json", history_data |-> the list parsed from *)
(* history.json].                                                          *)
(***************************************************************************)
RECURSIVE LoadResultFiles(_, _, _, _)
\* test_results after the loop over the files
LoadResultFiles(files, results, framework, clock) ==
    IF files = <<>> THEN results
    ELSE LET result == IF Head(files) = None THEN None
                       ELSE _parse_test_result(Head(files)[1], framework, clock)
         IN  LoadResultFiles(Tail(files),
                             IF result = None THEN results ELSE Append(results, result[1]),
                             framework, clock)

\* variant: a missing directory is an empty one, and the aggregation still runs
LoadMissingStillAggregates(results_dir, results, summaries, framework, clock) ==
    LET files == IF results_dir.exists THEN results_dir.files ELSE <<>>
        loaded == LoadResultFiles(files, results, framework, clock)
    IN  <<loaded, _load_build_summaries(loaded, summaries)>>

\* <<test_results, build_summaries>> after load_results_from_directory
load_results_from_directory(results_dir, results, summaries, framework, clock) ==
    IF ~results_dir.exists THEN <<results, summaries>>
    ELSE LET loaded == LoadResultFiles(results_dir.files, results, framework, clock)
         IN  <<loaded, _load_build_summaries(loaded, summaries)>>

\* build_summaries after load_history_from_directory
load_history_from_directory(history_dir, summaries, framework, clock) ==
    IF ~history_dir.exists THEN summaries
    ELSE IF history_dir.file # "json" THEN summaries
    ELSE _parse_history_data(history_dir.history_data, summaries, framework, clock)

(***************************************************************************)
(* TrendAnalyzer.generate_report.  A file of the output directory is its   *)
(* name with what was written: the JSON report is report_data, the HTML    *)
(* report the page _generate_html_report makes of it.                      *)
(***************************************************************************)
\* variant: analyze_trends sorts build_summaries in place
AnalyzerAfterTrendsSorted(results, summaries) ==
    <<results, SortByTimestamp(summaries)>>

\* <<test_results, build_summaries>> after analyze_trends: it and the four
\* sub-analyses filter into new lists (lines 344, 429, 453, 461, 469) and sort
\* only a list of new tuples (line 482); nothing is assigned to the analyser
AnalyzerAfterTrends(results, summaries) == <<results, summaries>>

\* the roundings that can occur in analyze_trends for the window
Roundings(results, summaries, clock, days_back) ==
    LET recent_builds == RecentBuilds(summaries, clock, days_back)
    IN  {[pass |-> p, duration |-> d, regression |-> r] :
            p \in FpChoices(PassRates(recent_builds)),
            d \in FpChoices(Durations(recent_builds)),
            r \in RegressionFps(results, clock, days_back)}

\* min and max of the timestamps of the summaries, None without summaries
DateRange(summaries) ==
    LET n == Len(summaries)
    IN  IF n = 0 THEN [start |-> None, end |-> None]
        ELSE [start |-> Some(summaries[CHOOSE i \in 1..n : \A j \in 1..n :
                            TimeLe(summaries[i].timestamp, summaries[j].timestamp)]
                                .timestamp),
              end |-> Some(MaxTimestamp(summaries))]

\* the analyser and the output directory after generate_report; fp gives, by
\* window, the roundings of that window's analyze_trends
generate_report(results, summaries, framework, clock, format_type, fp, files) ==
    LET after_7d == AnalyzerAfterTrends(results, summaries)
        after_30d == AnalyzerAfterTrends(after_7d[1], after_7d[2])
        after_90d == AnalyzerAfterTrends(after_30d[1], after_30d[2])
        trends_7d == analyze_trends(results, summaries, clock, 7, fp[7].pass,
                                    fp[7].duration, fp[7].regression)
        trends_30d == analyze_trends(after_7d[1], after_7d[2], clock, 30, fp[30].pass,
                                     fp[30].duration, fp[30].regression)
        trends_90d == analyze_trends(after_30d[1], after_30d[2], clock, 90, fp[90].pass,
                                     fp[90].duration, fp[90].regression)
        report_data ==
            [project |-> "unknown-project",
             framework |-> framework,
             generated_at |-> clock,
             summary |-> [total_builds |-> Len(after_90d[2]),
                          total_test_results |-> Len(after_90d[1]),
                          date_range |-> DateRange(after_90d[2])],
             trends |-> ("7_days" :> trends_7d) @@ ("30_days" :> trends_30d)
                            @@ ("90_days" :> trends_90d)]
        json == IF Lower(format_type) = "json"
                THEN "trend_analysis.json" :> report_data
                ELSE <<>>
        html == IF Lower(format_type) = "html" \/ Lower(format_type) = "all"
                THEN "trend_analysis.html" :> [page_of |-> report_data]
                ELSE <<>>
    IN  [test_results |-> after_90d[1],
         build_summaries |-> after_90d[2],
         output_dir |-> html @@ json @@ files]

(***************************************************************************)
(* Inputs of the pure functions.                                           *)
(***************************************************************************)
Statuses == {"passed", "failed", "broken", "skipped", "unknown", "PASSED"}

Words ==
    {"AssertionError", "Unexpected", "SHOULD", "TypeError", "importerror",
     "Time", "out", "Connection", "NETWORK", "server", "slow", "Memory",
     "Performance", "boom", " "}

RECURSIVE Texts(_)
Texts(k) ==
    IF k = 0 THEN {""}
    ELSE LET shorter == Texts(k - 1)
         IN  shorter \cup {t \o w : t \in shorter, w \in Words}

ErrorMessages == {None} \cup {Some(t) : t \in Texts(MaxWords)}

RECURSIVE IntSeqs(_)
IntSeqs(k) ==
    IF k = 0 THEN {<<>>}
    ELSE LET shorter == IntSeqs(k - 1)
         IN  shorter \cup {Append(s, v) : s \in shorter, v \in 0..MaxValue}

RatSeq(s) == [i \in 1..Len(s) |-> RatInt(s[i])]

\* what datetime.datetime.now() returns: a run of the analyser is short against
\* the ages of its records, and reads the same instant throughout
Start == [day |-> 100, ms |-> 0]

(***************************************************************************)
(* SpecCategorize: _categorize_test applied to drawn statuses and error    *)
(* messages.                                                               *)
(***************************************************************************)
InitCategorize ==
    /\ test_results = <<>>
    /\ build_summaries = <<>>
    /\ now = Start
    /\ output_dir = <<>>
    /\ \E status \in Statuses, error_message \in ErrorMessages :
          call = [op |-> "_categorize_test", name |-> "t", status |-> status,
                  error_message |-> error_message, returned |-> FALSE]
    /\ ret = None

CallCategorize ==
    /\ call.op = "_categorize_test"
    /\ ~call.returned
    /\ ret' = _categorize_test(call.name, call.status, call.error_message)
    /\ call' = [call EXCEPT !.returned = TRUE]
    /\ UNCHANGED <<test_results, build_summaries, now, output_dir>>

NextCategorize == CallCategorize

SpecCategorize == InitCategorize /\ [][NextCategorize]_vars

(***************************************************************************)
(* SpecTrend: _analyze_trend applied to drawn series.                      *)
(***************************************************************************)
InitTrend ==
    /\ test_results = <<>>
    /\ build_summaries = <<>>
    /\ now = Start
    /\ output_dir = <<>>
    /\ \E values \in IntSeqs(MaxLen), reverse \in BOOLEAN :
          \E fp \in FpChoices(RatSeq(values)) :
              call = [op |-> "_analyze_trend", values |-> values, reverse |-> reverse,
                      fp |-> fp, returned |-> FALSE]
    /\ ret = None

CallTrend ==
    /\ call.op = "_analyze_trend"
    /\ ~call.returned
    /\ ret' = _analyze_trend(RatSeq(call.values), call.reverse, call.fp)
    /\ call' = [call EXCEPT !.returned = TRUE]
    /\ UNCHANGED <<test_results, build_summaries, now, output_dir>>

NextTrend == CallTrend

SpecTrend == InitTrend /\ [][NextTrend]_vars

(***************************************************************************)
(* Inputs of the analyser: what the directories hold.                      *)
(***************************************************************************)
At(day, ms) == [day |-> day, ms |-> ms]

Label(name, value) == [name |-> name, value |-> value]

\* a file on which open or json.load raises
Unreadable == None

\* a passed test of build 1, a day ago, that carries an error text
PassedA ==
    Some([fullName |-> "A", status |-> "PASSED",
          start |-> At(99, 0), stop |-> At(99, 500),
          labels |-> <<Label("build", "1"), Label("branch", "main")>>,
          statusDetails |-> [message |-> "Expected timeout"]])

\* a failed test of build 2, three days ago
FailedA ==
    Some([name |-> "A", status |-> "failed",
          start |-> At(97, 0), stop |-> At(97, 1500),
          labels |-> <<Label("build", "2")>>,
          statusDetails |-> [message |-> "AssertionError: Connection refused"]])

\* a broken test of build 2 with no error text, older than every window
BrokenB ==
    Some([name |-> "B", status |-> "broken",
          start |-> At(5, 0), stop |-> At(5, 200),
          labels |-> <<Label("build", "2"), Label("framework", "pytest")>>])

\* the empty JSON object
EmptyObject == Some([x \in {} |-> 0])

\* a record with a label that has no value
BadLabel ==
    Some([name |-> "C", status |-> "passed",
          start |-> At(99, 0), stop |-> At(99, 100),
          labels |-> <<[name |-> "build"]>>])

ResultsDirs ==
    {[exists |-> FALSE]}
        \cup {[exists |-> TRUE, files |-> fs] :
                 fs \in {<<>>, <<BrokenB>>, <<EmptyObject>>, <<BadLabel, PassedA>>,
                         <<Unreadable, FailedA>>, <<PassedA, FailedA>>}}

\* build 1, two days ago
History1 ==
    [buildOrder |-> 1, time |-> [start |-> At(98, 0), duration |-> 2000],
     statistic |-> [total |-> 4, passed |-> 3, failed |-> 1, skipped |-> 0,
                    broken |-> 0]]

\* build 3, twenty days ago
History3 ==
    [buildOrder |-> 3, time |-> [start |-> At(80, 0), duration |-> 1000],
     statistic |-> [total |-> 2, passed |-> 1, failed |-> 0, skipped |-> 1,
                    broken |-> 0]]

\* an entry whose time is null
HistoryNullTime == [buildOrder |-> 4, time |-> JsonNull]

\* the empty JSON object
HistoryEmpty == [x \in {} |-> 0]

HistoryDirs ==
    {[exists |-> FALSE],
     [exists |-> TRUE, file |-> "absent"],
     [exists |-> TRUE, file |-> "unreadable"]}
        \cup {[exists |-> TRUE, file |-> "json", history_data |-> h] :
                 h \in {<<>>, <<History3>>, <<HistoryEmpty>>,
                        <<HistoryNullTime, History1>>}}

\* the windows generate_report asks for
DaysBack == {7, 30, 90}

\* TrendAnalyzer(project_name, framework) as main constructs it by default
Framework == "auto"

(***************************************************************************)
(* Spec: the analyser.                                                     *)
(***************************************************************************)
Init ==
    /\ test_results = <<>>
    /\ build_summaries = <<>>
    /\ now = Start
    /\ output_dir = <<>>
    /\ call = [op |-> "__init__", returned |-> TRUE]
    /\ ret = None

LoadResults(results_dir) ==
    LET after == load_results_from_directory(results_dir, test_results,
                                             build_summaries, Framework, now)
    IN  /\ Len(after[1]) <= MaxResults
        /\ Len(after[2]) <= MaxSummaries
        /\ test_results' = after[1]
        /\ build_summaries' = after[2]
        /\ call' = [op |-> "load_results_from_directory", returned |-> TRUE]
        /\ ret' = None
        /\ UNCHANGED <<now, output_dir>>

LoadHistory(history_dir) ==
    LET after == load_history_from_directory(history_dir, build_summaries,
                                             Framework, now)
    IN  /\ Len(after) <= MaxSummaries
        /\ build_summaries' = after
        /\ call' = [op |-> "load_history_from_directory", returned |-> TRUE]
        /\ ret' = None
        /\ UNCHANGED <<test_results, now, output_dir>>

AnalyzeTrends(days_back) ==
    /\ LET recent_builds == RecentBuilds(build_summaries, now, days_back)
       IN  \E fp_pass \in FpChoices(PassRates(recent_builds)),
              fp_duration \in FpChoices(Durations(recent_builds)),
              fp_regression \in RegressionFps(test_results, now, days_back) :
              ret' = analyze_trends(test_results, build_summaries, now, days_back,
                                    fp_pass, fp_duration, fp_regression)
    /\ call' = [op |-> "analyze_trends", days_back |-> days_back, clock |-> now,
                returned |-> TRUE]
    /\ UNCHANGED <<test_results, build_summaries, now, output_dir>>

Next ==
    \/ \E results_dir \in ResultsDirs : LoadResults(results_dir)
    \/ \E history_dir \in HistoryDirs : LoadHistory(history_dir)
    \/ \E days_back \in DaysBack : AnalyzeTrends(days_back)

Spec == Init /\ [][Next]_vars

(***************************************************************************)
(* SpecTrendUse: the analyser together with _analyze_trend on drawn        *)
(* series, for what is said of the function and of its two uses at once.   *)
(***************************************************************************)
InitTrendUse == Init \/ InitTrend

NextTrendUse == Next \/ NextTrend

SpecTrendUse == InitTrendUse /\ [][NextTrendUse]_vars

(***************************************************************************)
(* Properties.                                                             *)
(***************************************************************************)
(***************************************************************************)
(* SpecFlaky: _identify_flaky_tests on an analyser whose test_results hold *)
(* the drawn runs of one test, after a few results that do not count.      *)
(***************************************************************************)
\* a TestResult of build 1 that ran at the start of the given day
Run(name, status, day, duration) ==
    [name |-> name, status |-> status, duration |-> duration,
     timestamp |-> At(day, 0), build_number |-> "1", branch |-> "main",
     framework |-> Framework, error_message |-> None,
     category |-> _categorize_test(name, status, None)]

RECURSIVE StatusSeqs(_)
StatusSeqs(k) ==
    IF k = 0 THEN {<<>>}
    ELSE LET shorter == StatusSeqs(k - 1)
         IN  shorter \cup {Append(s, v) : s \in shorter,
                                           v \in {"passed", "failed", "broken"}}

\* yesterday's runs of test A, one per status
RunsOfA(statuses) ==
    [i \in 1..Len(statuses) |-> Run("A", statuses[i], 99, RatInt(1))]

\* nothing; a run of A fifty days ago; a run of another test yesterday
OtherRuns ==
    {<<>>, <<Run("A", "failed", 50, RatInt(1))>>, <<Run("B", "failed", 99, RatInt(1))>>}

InitFlaky ==
    /\ \E statuses \in StatusSeqs(MaxRuns), others \in OtherRuns :
          test_results = others \o RunsOfA(statuses)
    /\ build_summaries = <<>>
    /\ now = Start
    /\ output_dir = <<>>
    /\ \E days_back \in DaysBack :
          call = [op |-> "_identify_flaky_tests", days_back |-> days_back,
                  clock |-> Start, returned |-> FALSE]
    /\ ret = None

CallFlaky ==
    /\ call.op = "_identify_flaky_tests"
    /\ ~call.returned
    /\ ret' = _identify_flaky_tests(test_results, call.clock, call.days_back)
    /\ call' = [call EXCEPT !.returned = TRUE]
    /\ UNCHANGED <<test_results, build_summaries, now, output_dir>>

NextFlaky == CallFlaky

SpecFlaky == InitFlaky /\ [][NextFlaky]_vars

(***************************************************************************)
(* SpecFlakyOrder: _identify_flaky_tests on an analyser that holds the     *)
(* runs of many tests, listed in a drawn order.                            *)
(***************************************************************************)
TestName(i) ==
    <<"T01", "T02", "T03", "T04", "T05", "T06", "T07", "T08", "T09", "T10",
      "T11", "T12", "T13", "T14">>[i]

RECURSIVE Flatten(_)
Flatten(lists) ==
    IF lists = <<>> THEN <<>>
    ELSE Flatten(SubSeq(lists, 1, Len(lists) - 1)) \o lists[Len(lists)]

\* the first run of every test, then the second of every test, and so on
ByRound(tests) ==
    LET rounds == CHOOSE n \in {0} \cup {Len(tests[p]) : p \in 1..Len(tests)} :
                      \A p \in 1..Len(tests) : Len(tests[p]) <= n
    IN  Flatten([r \in 1..rounds |->
                    Flatten([p \in 1..Len(tests) |->
                                IF r <= Len(tests[p]) THEN <<tests[p][r]>>
                                ELSE <<>>])])

\* an unstable test: one run in three off for an odd test, one in two for an
\* even one
UnstableStatuses(i) ==
    IF i % 2 = 1 THEN <<"passed", "failed", "passed">>
    ELSE <<"failed", "passed", "failed", "passed">>

\* yesterday's runs of tests 1..k, all unstable but the test `stable`, listed
\* in ascending or descending order of the tests
RunsOfTests(k, stable, ascending) ==
    [p \in 1..k |->
        LET i == IF ascending THEN p ELSE k + 1 - p
            statuses == IF i = stable THEN <<"passed", "passed", "passed">>
                        ELSE UnstableStatuses(i)
        IN  [r \in 1..Len(statuses) |-> Run(TestName(i), statuses[r], 99, RatInt(1))]]

InitFlakyOrder ==
    /\ \E k \in 0..MaxTests, ascending \in BOOLEAN, by_round \in BOOLEAN,
          old \in BOOLEAN :
          \E stable \in 0..k :
              LET tests == RunsOfTests(k, stable, ascending)
                  listed == IF by_round THEN ByRound(tests) ELSE Flatten(tests)
                  \* a run of test 1 fifty days ago, ahead of every other run
                  before == IF old /\ k > 0
                            THEN <<Run(TestName(1), "failed", 50, RatInt(1))>>
                            ELSE <<>>
              IN  test_results = before \o listed
    /\ build_summaries = <<>>
    /\ now = Start
    /\ output_dir = <<>>
    /\ call = [op |-> "_identify_flaky_tests", days_back |-> 7, clock |-> Start,
               returned |-> FALSE]
    /\ ret = None

NextFlakyOrder == CallFlaky

SpecFlakyOrder == InitFlakyOrder /\ [][NextFlakyOrder]_vars

(***************************************************************************)
(* SpecMostFailed: _identify_most_failed_tests on an analyser that holds   *)
(* the runs of many tests, each with a drawn number of failures.           *)
(***************************************************************************)
\* the failures of tests 1, 2, 3; test 4 has as many as test 1, and so on
FailureCounts == {<<5, 5, 3>>, <<1, 2, 3>>, <<0, 2, 2>>}

\* yesterday's runs of tests 1..k: the failures of each, after a broken, a
\* skipped and a passed run of it when `others` is set
RunsWithFailures(k, counts, ascending, others) ==
    [p \in 1..k |->
        LET i == IF ascending THEN p ELSE k + 1 - p
            statuses ==
                (IF others THEN <<"broken", "skipped", "passed">> ELSE <<>>)
                    \o [c \in 1..counts[((i - 1) % 3) + 1] |-> "failed"]
        IN  [r \in 1..Len(statuses) |-> Run(TestName(i), statuses[r], 99, RatInt(1))]]

\* what the list starts with: nothing, a failure of test 2 fifty days ago, or a
\* passed run of test 2 yesterday
Ahead ==
    {<<>>, <<Run(TestName(2), "failed", 50, RatInt(1))>>,
     <<Run(TestName(2), "passed", 99, RatInt(1))>>}

InitMostFailed ==
    /\ \E k \in 0..MaxTests, counts \in FailureCounts, ascending \in BOOLEAN,
          by_round \in BOOLEAN, others \in BOOLEAN, ahead \in Ahead :
          LET tests == RunsWithFailures(k, counts, ascending, others)
          IN  test_results = ahead \o (IF by_round THEN ByRound(tests)
                                       ELSE Flatten(tests))
    /\ build_summaries = <<>>
    /\ now = Start
    /\ output_dir = <<>>
    /\ call = [op |-> "_identify_most_failed_tests", days_back |-> 7,
               clock |-> Start, returned |-> FALSE]
    /\ ret = None

CallMostFailed ==
    /\ call.op = "_identify_most_failed_tests"
    /\ ~call.returned
    /\ ret' = _identify_most_failed_tests(test_results, call.clock, call.days_back)
    /\ call' = [call EXCEPT !.returned = TRUE]
    /\ UNCHANGED <<test_results, build_summaries, now, output_dir>>

NextMostFailed == CallMostFailed

SpecMostFailed == InitMostFailed /\ [][NextMostFailed]_vars

(***************************************************************************)
(* SpecRegression: _identify_performance_regressions on an analyser that   *)
(* holds the drawn runs of one test.                                       *)
(***************************************************************************)
\* 0.5, 0.9, 1.0 and 1.8 seconds
DurationValues == {Rat(1, 2), Rat(9, 10), RatInt(1), Rat(9, 5)}

RECURSIVE DurationSeqs(_)
DurationSeqs(k) ==
    IF k = 0 THEN {<<>>}
    ELSE LET shorter == DurationSeqs(k - 1)
         IN  shorter \cup {Append(s, v) : s \in shorter, v \in DurationValues}

\* yesterday's runs of test A with the given durations, listed in the order
\* they ran ("chronological"), in the opposite order ("reversed"), or all of
\* one instant
TimedRuns(durations, listing) ==
    [i \in 1..Len(durations) |->
        [Run("A", "passed", 99, durations[i]) EXCEPT
            !.timestamp = At(99, CASE listing = "chronological" -> i
                                   [] listing = "reversed" -> Len(durations) - i
                                   [] OTHER -> 0)]]

\* nothing, or a slow run of A fifty days ago
OlderRuns == {<<>>, <<Run("A", "passed", 50, RatInt(1))>>}

InitRegression ==
    /\ \E durations \in DurationSeqs(MaxPoints),
          listing \in {"chronological", "reversed", "same instant"} :
          \E older \in IF listing = "chronological" THEN OlderRuns ELSE {<<>>} :
              test_results = older \o TimedRuns(durations, listing)
    /\ build_summaries = <<>>
    /\ now = Start
    /\ output_dir = <<>>
    /\ \E fp \in RegressionFps(test_results, Start, 7) :
          call = [op |-> "_identify_performance_regressions", days_back |-> 7,
                  clock |-> Start, fp |-> fp, returned |-> FALSE]
    /\ ret = None

CallRegression ==
    /\ call.op = "_identify_performance_regressions"
    /\ ~call.returned
    /\ ret' = _identify_performance_regressions(test_results, call.clock,
                                                call.days_back, call.fp)
    /\ call' = [call EXCEPT !.returned = TRUE]
    /\ UNCHANGED <<test_results, build_summaries, now, output_dir>>

NextRegression == CallRegression

SpecRegression == InitRegression /\ [][NextRegression]_vars

(***************************************************************************)
(* SpecPassRates: the analyser fed three builds of pass rates 60, 75 and   *)
(* 90 percent, five days apart, through either loader and in any order.    *)
(***************************************************************************)
\* a history entry of 20 tests of which `passed` passed, the rest failed
HistoryOf(build_order, day, passed) ==
    [buildOrder |-> build_order, time |-> [start |-> At(day, 0), duration |-> 1000],
     statistic |-> [total |-> 20, passed |-> passed, failed |-> 20 - passed,
                    skipped |-> 0, broken |-> 0]]

\* a result file of build 2, six days ago
ResultOfBuildTwo(name, status) ==
    Some([name |-> name, status |-> status,
          start |-> At(94, 0), stop |-> At(94, 250),
          labels |-> <<Label("build", "2")>>])

\* build 2 as result files: three tests passed of four
PassRateDirs ==
    {[exists |-> TRUE,
      files |-> <<ResultOfBuildTwo("A", "passed"), ResultOfBuildTwo("B", "passed"),
                  ResultOfBuildTwo("C", "failed"), ResultOfBuildTwo("D", "passed")>>]}

\* builds 1, 2, 3 of eleven, six and one day ago, of pass rates 60, 75, 90:
\* one to a feed, or all three oldest first or newest first
PassRateFeeds ==
    LET sixty == HistoryOf(1, 89, 12)
        seventy_five == HistoryOf(2, 94, 15)
        ninety == HistoryOf(3, 99, 18)
    IN  {[exists |-> TRUE, file |-> "json", history_data |-> h] :
            h \in {<<sixty>>, <<seventy_five>>, <<ninety>>,
                   <<sixty, seventy_five, ninety>>,
                   <<ninety, seventy_five, sixty>>}}

NextPassRates ==
    \/ \E results_dir \in PassRateDirs : LoadResults(results_dir)
    \/ \E history_dir \in PassRateFeeds : LoadHistory(history_dir)
    \/ \E days_back \in DaysBack : AnalyzeTrends(days_back)

SpecPassRates == Init /\ [][NextPassRates]_vars

(***************************************************************************)
(* SpecAggregation: the analyser fed by load_results_from_directory alone, *)
(* so that every BuildSummary it holds was derived by aggregation.         *)
(***************************************************************************)
NextAggregation ==
    \/ \E results_dir \in ResultsDirs : LoadResults(results_dir)
    \/ \E days_back \in DaysBack : AnalyzeTrends(days_back)

SpecAggregation == Init /\ [][NextAggregation]_vars

(***************************************************************************)
(* SpecParse: _parse_test_result applied to drawn raw records, on an       *)
(* analyser constructed with the default framework or with another.  A     *)
(* record is put together from the keys it has.                            *)
(***************************************************************************)
NoKey == [x \in {} |-> 0]

\* the ways a record can have, or lack, the key
KeyChoices(key, values) == {NoKey} \cup {key :> v : v \in values}

\* start and stop are epoch milliseconds, within two days of the epoch so that
\* their differences stay 32-bit integers; Epoch is the JSON number 0
RawRecords ==
    {n @@ f @@ s @@ a @@ o @@ l @@ d :
        n \in KeyChoices("name", {"A"}),
        f \in KeyChoices("fullName", {"pkg.A"}),
        s \in KeyChoices("status", {"passed", "FAILED", "broken"}),
        a \in KeyChoices("start", {Epoch, At(1, 0), At(1, 500)}),
        o \in KeyChoices("stop", {Epoch, At(1, 0), At(1, 500), At(2, 0)}),
        l \in KeyChoices("labels",
                         {<<>>, <<Label("build", "7"), Label("framework", "jest")>>,
                          <<Label("branch", "dev")>>, <<[name |-> "build"]>>}),
        d \in KeyChoices("statusDetails", {[message |-> "Connection timeout"]})}

InitParse ==
    /\ test_results = <<>>
    /\ build_summaries = <<>>
    /\ now = Start
    /\ output_dir = <<>>
    /\ \E data \in RawRecords, framework \in {Framework, "pytest"} :
          call = [op |-> "_parse_test_result", data |-> data,
                  framework |-> framework, returned |-> FALSE]
    /\ ret = None

CallParse ==
    /\ call.op = "_parse_test_result"
    /\ ~call.returned
    /\ ret' = _parse_test_result(call.data, call.framework, now)
    /\ call' = [call EXCEPT !.returned = TRUE]
    /\ UNCHANGED <<test_results, build_summaries, now, output_dir>>

NextParse == CallParse

SpecParse == InitParse /\ [][NextParse]_vars

(***************************************************************************)
(* SpecMain: one run of main() on drawn directories: the analyser is       *)
(* constructed, the results are loaded, then the history, the report is    *)
(* written, and the summary printed is that of analyze_trends(args.days).  *)
(* The same computation on the same values rounds the same way: the        *)
(* summary takes the roundings the report took for its window.             *)
(***************************************************************************)
MainResultsDirs ==
    ResultsDirs
        \cup {[exists |-> TRUE, files |-> fs] :
                 fs \in {<<Unreadable, BadLabel>>, <<EmptyObject, EmptyObject>>}}

MainHistoryDirs ==
    HistoryDirs
        \cup {[exists |-> TRUE, file |-> "json", history_data |-> h] :
                 h \in {<<HistoryNullTime>>,
                        <<HistoryEmpty, HistoryEmpty, HistoryEmpty>>}}

Main(results_dir, history_dir, format_type, days) ==
    /\ call.op = "__init__"
    /\ LET loaded == load_results_from_directory(results_dir, test_results,
                                                 build_summaries, Framework, now)
           summaries == load_history_from_directory(history_dir, loaded[2],
                                                    Framework, now)
       IN  \E fp_7d \in Roundings(loaded[1], summaries, now, 7),
              fp_30d \in Roundings(loaded[1], summaries, now, 30),
              fp_90d \in Roundings(loaded[1], summaries, now, 90) :
              LET fp == (7 :> fp_7d) @@ (30 :> fp_30d) @@ (90 :> fp_90d)
                  reported == generate_report(loaded[1], summaries, Framework, now,
                                              format_type, fp, output_dir)
                  after == AnalyzerAfterTrends(reported.test_results,
                                               reported.build_summaries)
              IN  /\ ret' = analyze_trends(reported.test_results,
                                           reported.build_summaries, now, days,
                                           fp[days].pass, fp[days].duration,
                                           fp[days].regression)
                  /\ test_results' = after[1]
                  /\ build_summaries' = after[2]
                  /\ output_dir' = reported.output_dir
    /\ call' = [op |-> "main", results_dir |-> results_dir,
                history_dir |-> history_dir, format_type |-> format_type,
                days |-> days, returned |-> TRUE]
    /\ UNCHANGED now

\* --format has the choices json, html and all
NextMain ==
    \E results_dir \in MainResultsDirs, history_dir \in MainHistoryDirs,
       format_type \in {"json", "html", "all"}, days \in DaysBack :
        Main(results_dir, history_dir, format_type, days)

SpecMain == Init /\ [][NextMain]_vars

(***************************************************************************)
(* SpecHistory: _parse_history_data applied to drawn feeds, on an analyser *)
(* that holds no summary or one.                                           *)
(***************************************************************************)
\* an entry whose statistic is null
HistoryNullStatistic ==
    [buildOrder |-> 5, time |-> [start |-> At(96, 0), duration |-> 3000],
     statistic |-> JsonNull]

HistoryEntries ==
    {History1, History3, HistoryEmpty, HistoryNullTime, HistoryNullStatistic}

RECURSIVE HistoryFeeds(_)
HistoryFeeds(k) ==
    IF k = 0 THEN {<<>>}
    ELSE LET shorter == HistoryFeeds(k - 1)
         IN  shorter \cup {Append(h, e) : h \in shorter, e \in HistoryEntries}

\* what the analyser holds before the import: nothing, or the summary of a build
SummariesHeld == {<<>>, <<HistorySummary(HistoryOf(3, 99, 18), Framework, Start)>>}

InitHistory ==
    /\ test_results = <<>>
    /\ build_summaries \in SummariesHeld
    /\ now = Start
    /\ output_dir = <<>>
    /\ \E history_data \in HistoryFeeds(MaxEntries) :
          call = [op |-> "_parse_history_data", history_data |-> history_data,
                  held |-> build_summaries, returned |-> FALSE]
    /\ ret = None

CallHistory ==
    /\ call.op = "_parse_history_data"
    /\ ~call.returned
    /\ build_summaries' = _parse_history_data(call.history_data, build_summaries,
                                              Framework, now)
    /\ call' = [call EXCEPT !.returned = TRUE]
    /\ UNCHANGED <<test_results, now, ret, output_dir>>

NextHistory == CallHistory

SpecHistory == InitHistory /\ [][NextHistory]_vars

(***************************************************************************)
(* SpecMetrics: analyze_trends on an analyser that has loaded the runs of  *)
(* many tests, each of which fails, passes and slows down over five days.  *)
(***************************************************************************)
\* the runs of tests 1..k over the last five days, listed in ascending or
\* descending order of the tests: failed, passed, failed, passed, broken, the
\* first two runs of half a second and the others of two; the failures of a
\* test carry an assertion error, a connection time-out or no message, by
\* turns, and its broken run a TypeError.  The test `steady` passes five
\* times in one second.
RunsOverFiveDays(k, steady, ascending) ==
    [p \in 1..k |->
        LET i == IF ascending THEN p ELSE k + 1 - p
            message == <<Some("AssertionError: expected 1"),
                         Some("Connection timeout"), None>>[(i % 3) + 1]
        IN  [r \in 1..5 |->
                LET status == IF i = steady THEN "passed"
                              ELSE <<"failed", "passed", "failed", "passed", "broken">>[r]
                    error_message == IF status = "failed" THEN message
                                     ELSE IF status = "broken"
                                     THEN Some("TypeError: x is undefined")
                                     ELSE None
                    duration == IF i = steady THEN RatInt(1)
                                ELSE IF r <= 2 THEN Rat(1, 2) ELSE RatInt(2)
                IN  [Run(TestName(i), status, 94 + r, duration)
                        EXCEPT !.error_message = error_message,
                               !.category = _categorize_test(TestName(i), status,
                                                             error_message)]]]

\* the analyser after load_results_from_directory on a directory of such runs
InitMetrics ==
    /\ \E k \in {0, 2, MaxTests - 1, MaxTests}, steady \in {0, 1},
          ascending \in BOOLEAN, by_round \in BOOLEAN, old \in BOOLEAN :
          LET tests == RunsOverFiveDays(k, steady, ascending)
              listed == IF by_round THEN ByRound(tests) ELSE Flatten(tests)
              \* a failure of the last test fifty days ago, ahead of every
              \* other run
              before == IF old /\ k > 0
                        THEN <<Run(TestName(k), "failed", 50, RatInt(1))>>
                        ELSE <<>>
          IN  /\ test_results = before \o listed
              /\ build_summaries = _load_build_summaries(before \o listed, <<>>)
    /\ now = Start
    /\ output_dir = <<>>
    /\ call = [op |-> "load_results_from_directory", returned |-> TRUE]
    /\ ret = None

NextMetrics == \E days_back \in DaysBack : AnalyzeTrends(days_back)

SpecMetrics == InitMetrics /\ [][NextMetrics]_vars

(***************************************************************************)
(* SpecLoad: the two loaders called in any order on drawn directories, the *)
(* call keeping its argument, what the analyser held when it was made, and *)
(* how many calls have been made.                                          *)
(* load_results_from_directory does not catch what _load_build_summaries   *)
(* raises: the call then ends in the exception, test_results already       *)
(* extended.                                                               *)
(***************************************************************************)
\* a failed test whose build label is a JSON array
ListBuild ==
    Some([name |-> "D", status |-> "failed",
          start |-> At(99, 0), stop |-> At(99, 100),
          labels |-> <<Label("build", JsonList)>>])

LoadResultsFrom(results_dir) ==
    LET after == load_results_from_directory(results_dir, test_results,
                                             build_summaries, Framework, now)
        raised == results_dir.exists /\ AggregationRaises(after[1])
    IN  /\ Get(call, "calls", 0) < MaxCalls
        /\ test_results' = after[1]
        /\ build_summaries' = after[2]
        /\ call' = [op |-> "load_results_from_directory",
                    calls |-> Get(call, "calls", 0) + 1,
                    results_dir |-> results_dir,
                    held_results |-> test_results,
                    held_summaries |-> build_summaries,
                    raised |-> raised, returned |-> ~raised]
        /\ ret' = None
        /\ UNCHANGED <<now, output_dir>>

LoadHistoryFrom(history_dir) ==
    LET after == load_history_from_directory(history_dir, build_summaries,
                                             Framework, now)
    IN  /\ Get(call, "calls", 0) < MaxCalls
        /\ build_summaries' = after
        /\ call' = [op |-> "load_history_from_directory",
                    calls |-> Get(call, "calls", 0) + 1,
                    history_dir |-> history_dir,
                    held_results |-> test_results,
                    held_summaries |-> build_summaries,
                    raised |-> FALSE, returned |-> TRUE]
        /\ ret' = None
        /\ UNCHANGED <<test_results, now, output_dir>>

NextLoad ==
    \/ \E results_dir \in ResultsDirs
                              \cup {[exists |-> TRUE, files |-> <<PassedA, ListBuild>>]} :
          LoadResultsFrom(results_dir)
    \/ \E history_dir \in HistoryDirs : LoadHistoryFrom(history_dir)

SpecLoad == Init /\ [][NextLoad]_vars

Categorized == call.op = "_categorize_test" /\ call.returned

Trended == call.op = "_analyze_trend" /\ call.returned

Analyzed == call.op = "analyze_trends" /\ call.returned

\* keyword occurs in text in some letter case
ContainsAnyCase(text, keyword) ==
    \E i \in 1..(Len(text) - Len(keyword) + 1) :
        Lower(SubSeq(text, i, i + Len(keyword) - 1)) = keyword

\* C1: every TestResult held in test_results has category "passed" exactly
\* when its status is "passed".
C1_PassedCategoryIffPassedStatus ==
    \A i \in 1..Len(test_results) :
        (test_results[i].category = "passed") <=> (test_results[i].status = "passed")

\* a passed result that carries an error text, next to a result that did not pass
C1_Witness ==
    /\ \E i \in 1..Len(test_results) :
          /\ test_results[i].status = "passed"
          /\ test_results[i].error_message # None
          /\ test_results[i].category = "passed"
    /\ \E i \in 1..Len(test_results) :
          /\ test_results[i].status # "passed"
          /\ test_results[i].category # "passed"

C2_Case ==
    /\ Categorized
    /\ call.status # "passed"
    /\ call.error_message # None
    /\ \E k \in ProductKeywords : ContainsAnyCase(call.error_message[1], k)
    /\ \E k \in InfrastructureKeywords : ContainsAnyCase(call.error_message[1], k)

\* C2: a non-passed status with an error text that holds an assertion keyword
\* and an infrastructure keyword, in any letter case, is a product_defect.
C2_AssertionBeforeInfrastructure == C2_Case => ret = "product_defect"

\* such a text, with the infrastructure keyword first and in upper case
C2_Witness ==
    /\ C2_Case
    /\ call.error_message = Some("NETWORKSHOULD")
    /\ ret = "product_defect"

Taxonomy ==
    <<"passed", "unknown_failure", "product_defect", "test_defect",
      "infrastructure", "performance", "other_failure">>

HasText(error_message) == error_message # None /\ error_message # Some("")

\* rule i of the classifier matches
RuleMatches(i, status, error_message) ==
    CASE i = 1 -> status = "passed"
      [] i = 2 -> ~HasText(error_message)
      [] i = 3 -> /\ HasText(error_message)
                  /\ \E k \in ProductKeywords : ContainsAnyCase(error_message[1], k)
      [] i = 4 -> /\ HasText(error_message)
                  /\ \E k \in TestDefectKeywords : ContainsAnyCase(error_message[1], k)
      [] i = 5 -> /\ HasText(error_message)
                  /\ \E k \in InfrastructureKeywords :
                        ContainsAnyCase(error_message[1], k)
      [] i = 6 -> /\ HasText(error_message)
                  /\ \E k \in PerformanceKeywords : ContainsAnyCase(error_message[1], k)
      [] OTHER -> TRUE

FirstRule(status, error_message) ==
    CHOOSE i \in 1..Len(Taxonomy) :
        /\ RuleMatches(i, status, error_message)
        /\ \A j \in 1..(i - 1) : ~RuleMatches(j, status, error_message)

\* C3: for every status and error message, None and the empty string included,
\* _categorize_test returns the category of the first rule that matches, in the
\* order passed, no error text, product_defect, test_defect, infrastructure,
\* performance, other_failure.
C3_FirstMatchingRule ==
    Categorized => ret = Taxonomy[FirstRule(call.status, call.error_message)]

\* the empty string, which is no error text
C3_Witness ==
    /\ Categorized
    /\ call.status = "failed"
    /\ call.error_message = Some("")
    /\ ret = "unknown_failure"

SumOfFour(b) == b.passed_tests + b.failed_tests + b.skipped_tests + b.broken_tests

\* the results of a build whose status is none of the four that are counted
OtherStatusCount(results, build_number) ==
    Cardinality({i \in 1..Len(results) :
                    /\ results[i].build_number = build_number
                    /\ results[i].status \notin {"passed", "failed", "skipped", "broken"}})

InSeq(x, q) == \E i \in 1..Len(q) : q[i] = x

IsSortedByTimestamp(q) ==
    \A i \in 1..(Len(q) - 1) : TimeLe(q[i].timestamp, q[i + 1].timestamp)

\* C5: build_summaries is sorted ascending by timestamp whenever analyze_trends
\* reads it.
C5_SortedWhenAnalyzed == Analyzed => IsSortedByTimestamp(build_summaries)

NoRecentBuild ==
    \A i \in 1..Len(build_summaries) :
        ~TimeLe(CutoffDate(call.clock, call.days_back), build_summaries[i].timestamp)

\* C6: analyze_trends returns the zeroed TrendMetrics whenever no BuildSummary
\* has timestamp >= now - days_back, build_summaries being empty or not and
\* whatever test_results holds.
C6_ZeroedWithoutRecentBuild == (Analyzed /\ NoRecentBuild) => ret = ZeroMetrics

\* results and summaries are held, none of the summaries in the window
C6_Witness ==
    /\ Analyzed
    /\ NoRecentBuild
    /\ test_results # <<>>
    /\ build_summaries # <<>>
    /\ ret = ZeroMetrics

\* C7: _analyze_trend returns "unknown" for a series of length 0, 1 or 2, with
\* or without reverse, and never for a series of length 3 or more.
C7_UnknownIffShorterThanThree ==
    Trended => ((ret = "unknown") <=> (Len(call.values) < 3))

\* a series of exactly 3 values has a direction
C7_Witness ==
    /\ Trended
    /\ Len(call.values) = 3
    /\ call.reverse
    /\ ret = "improving"

\* the scales a > 0 and the shifts b of the transforms f(x) = a * x + b
Scales == {Rat(1, 10), Rat(1, 2), RatInt(1), RatInt(2), RatInt(10)}

Shifts == {RatInt(b) : b \in (-MaxShift)..MaxShift}

Transformed(values, a, b) ==
    [i \in 1..Len(values) |-> RatAdd(RatMul(a, RatInt(values[i])), b)]

Opposite(d1, d2) ==
    \/ d1 = "improving" /\ d2 = "declining"
    \/ d1 = "declining" /\ d2 = "improving"

\* C8 as the specification words it: the direction of a series of length >= 3
\* is that of its image under every f(x) = a * x + b with a > 0 (whatever the
\* rounding on the image).
C8_AffineInvariant ==
    (Trended /\ Len(call.values) >= 3) =>
        \A a \in Scales, b \in Shifts :
            \E fp \in FpSigns :
                _analyze_trend(Transformed(call.values, a, b), call.reverse, fp) = ret

\* C8, amended: the two directions are never opposite (they are equal, or one of
\* them is "stable"), and they are equal for a shift (a = 1) of a series whose
\* slope is not exactly 1/10 or -1/10.
C8_AffineNeverOpposite ==
    (Trended /\ Len(call.values) >= 3) =>
        \A a \in Scales, b \in Shifts :
            \A fp \in FpChoices(Transformed(call.values, a, b)) :
                LET image == _analyze_trend(Transformed(call.values, a, b),
                                            call.reverse, fp)
                IN  /\ ~Opposite(image, ret)
                    /\ (a = RatInt(1) /\ FpChoices(RatSeq(call.values)) = {0})
                           => image = ret

\* a rising series that a scale of 1/10 makes stable
C8_Witness ==
    /\ Trended
    /\ call.values = <<0, 0, 1>>
    /\ ~call.reverse
    /\ ret = "improving"
    /\ _analyze_trend(Transformed(call.values, Rat(1, 10), RatInt(0)), FALSE, 0)
           = "stable"

RECURSIVE SumTo(_, _)
\* f(1) + ... + f(n)
SumTo(f, n) == IF n = 0 THEN RatInt(0) ELSE RatAdd(f[n], SumTo(f, n - 1))

\* the least-squares slope of values against the indices 0..n-1:
\* (n * sum(x*y) - sum(x) * sum(y)) / (n * sum(x*x) - sum(x)^2)
OlsSlope(values) ==
    LET n == Len(values)
        sx == SumTo([i \in 1..n |-> RatInt(i - 1)], n)
        sy == SumTo(values, n)
        sxy == SumTo([i \in 1..n |-> RatMul(RatInt(i - 1), values[i])], n)
        sxx == SumTo([i \in 1..n |-> RatInt((i - 1) * (i - 1))], n)
    IN  RatDiv(RatSub(RatMul(RatInt(n), sxy), RatMul(sx, sy)),
               RatSub(RatMul(RatInt(n), sxx), RatMul(sx, sx)))

\* the direction the thresholds give a computed slope: improving above 0.1,
\* declining below -0.1, stable from -0.1 to 0.1.  The computed slope is the
\* least-squares slope up to rounding, which tells only when that is 1/10 or
\* -1/10: side is then where the computed slope lies (-1 below, 0 on, 1 above).
OlsDirection(values, side) ==
    IF RatLt(Rat(1, 10), OlsSlope(values)) THEN "improving"
    ELSE IF RatLt(OlsSlope(values), Rat(-1, 10)) THEN "declining"
    ELSE IF OlsSlope(values) = Rat(1, 10) /\ side = 1 THEN "improving"
    ELSE IF OlsSlope(values) = Rat(-1, 10) /\ side = -1 THEN "declining"
    ELSE "stable"

\* C9: for a series of length >= 3 and reverse = False, _analyze_trend takes the
\* least-squares slope of the values against their list indices 0..n-1 and
\* returns "improving" iff that slope, as computed, is > 0.1, "declining" iff it
\* is < -0.1, and "stable" otherwise, a computed slope of 0.1 or -0.1 included.
C9_DirectionOfOlsSlope ==
    (Trended /\ Len(call.values) >= 3 /\ ~call.reverse) =>
        ret = OlsDirection(RatSeq(call.values), call.fp)

\* a slope that is computed as exactly 0.1 is stable
C9_Witness ==
    /\ Trended
    /\ ~call.reverse
    /\ call.values = <<0, 0, 0, 1, 0>>
    /\ OlsSlope(RatSeq(call.values)) = Rat(1, 10)
    /\ call.fp = 0
    /\ ret = "stable"

Mirror(d) ==
    CASE d = "improving" -> "declining"
      [] d = "declining" -> "improving"
      [] OTHER -> d

\* the builds analyze_trends looked at
AnalyzedBuilds == RecentBuilds(build_summaries, call.clock, call.days_back)

\* C10: on every series of length >= 3, _analyze_trend with reverse=True is the
\* mirror image of _analyze_trend with reverse=False; analyze_trends takes the
\* pass-rate trend without reverse and the duration trend with it, so durations
\* of slope > 0.1 give duration_trend "declining".
C10_DurationTrendMirrored ==
    /\ (Trended /\ Len(call.values) >= 3) =>
          ret = Mirror(_analyze_trend(RatSeq(call.values), ~call.reverse, call.fp))
    /\ (Analyzed /\ Len(AnalyzedBuilds) >= 3) =>
          /\ \E fp \in FpSigns :
                ret.pass_rate_trend = _analyze_trend(PassRates(AnalyzedBuilds), FALSE, fp)
          /\ \E fp \in FpSigns :
                ret.duration_trend
                    = Mirror(_analyze_trend(Durations(AnalyzedBuilds), FALSE, fp))
          /\ RatLt(Rat(1, 10), OlsSlope(Durations(AnalyzedBuilds)))
                 => ret.duration_trend = "declining"
          /\ RatLt(Rat(1, 10), OlsSlope(PassRates(AnalyzedBuilds)))
                 => ret.pass_rate_trend = "improving"

\* three builds of rising duration and of rising pass rate
C10_Witness ==
    /\ Analyzed
    /\ Len(AnalyzedBuilds) >= 3
    /\ RatLt(Rat(1, 10), OlsSlope(Durations(AnalyzedBuilds)))
    /\ ret.duration_trend = "declining"


FlakyCalled == call.op = "_identify_flaky_tests" /\ call.returned

\* the statuses of the results of the test that fall in the window of the call
WindowStatuses(name) ==
    LET runs == SelectSeq(test_results,
                          LAMBDA r : /\ r.name = name
                                     /\ TimeLe(CutoffDate(call.clock, call.days_back),
                                               r.timestamp))
    IN  [i \in 1..Len(runs) |-> runs[i].status]

\* every status that occurs makes up at least a fifth of the statuses
EveryStatusAFifth(statuses) ==
    \A i \in 1..Len(statuses) : 5 * Count(statuses, statuses[i]) >= Len(statuses)

TestNames == {test_results[i].name : i \in 1..Len(test_results)}

\* C11: _identify_flaky_tests flags a test name exactly when its results inside
\* the window are at least 3, show more than one status, and the least frequent
\* status makes up at least 0.2 of them, the boundary included: one failure in
\* five runs is flagged, one failure in six is not.
C11_FlaggedIffAFifth ==
    FlakyCalled =>
        \A name \in TestNames :
            LET statuses == WindowStatuses(name)
            IN  InSeq(name, ret) <=>
                    /\ Len(statuses) >= 3
                    /\ \E i, j \in 1..Len(statuses) : statuses[i] # statuses[j]
                    /\ EveryStatusAFifth(statuses)

C11_Witness ==
    /\ FlakyCalled
    /\ WindowStatuses("A") = <<"passed", "failed", "passed", "passed", "passed">>
    /\ ret = <<"A">>


\* the runs whose status is not the most frequent one
OffMajority(statuses) ==
    LET most == CHOOSE c \in {Count(statuses, statuses[i]) : i \in 1..Len(statuses)} :
                    \A i \in 1..Len(statuses) : Count(statuses, statuses[i]) <= c
    IN  Len(statuses) - most

\* C12: a test with at least 3 results in the window and more than one status
\* is reported flaky whenever at least one in five of those runs has a status
\* other than the most frequent one, runs of three or more statuses included.
C12_FlaggedWhenAFifthOffMajority ==
    FlakyCalled =>
        \A name \in TestNames :
            LET statuses == WindowStatuses(name)
            IN  (/\ Len(statuses) >= 3
                 /\ \E i, j \in 1..Len(statuses) : statuses[i] # statuses[j]
                 /\ 5 * OffMajority(statuses) >= Len(statuses))
                    => InSeq(name, ret)


\* the results that fall in the window of the call
WindowResults ==
    SelectSeq(test_results,
              LAMBDA r : TimeLe(CutoffDate(call.clock, call.days_back), r.timestamp))

\* where the name first occurs in the list w
FirstEncounter(w, name) ==
    CHOOSE i \in 1..Len(w) : w[i].name = name /\ \A j \in 1..(i - 1) : w[j].name # name

\* the names of w that the rule of flakiness admits
Qualifying(w) ==
    {name \in {w[i].name : i \in 1..Len(w)} :
        LET runs == SelectSeq(w, LAMBDA r : r.name = name)
            statuses == [i \in 1..Len(runs) |-> runs[i].status]
        IN  /\ Len(statuses) >= 3
            /\ \E i, j \in 1..Len(statuses) : statuses[i] # statuses[j]
            /\ EveryStatusAFifth(statuses)}

MostFailedCalled == call.op = "_identify_most_failed_tests" /\ call.returned

\* the places in the list w of the results of the test with status 'failed'
Failures(w, name) == {i \in 1..Len(w) : w[i].name = name /\ w[i].status = "failed"}

\* the least element of a non-empty set of places
First(places) == CHOOSE i \in places : \A j \in places : i <= j

RegressionCalled == call.op = "_identify_performance_regressions" /\ call.returned

\* the places in the list w of the results of the test
PointsOf(w, name) == {i \in 1..Len(w) : w[i].name = name}

\* of the given points of w, those in the first floor(n/2) by timestamp, points
\* of one instant taken in the order of the list
EarlyPoints(w, points) ==
    {i \in points :
        Cardinality({j \in points :
                        \/ TimeLt(w[j].timestamp, w[i].timestamp)
                        \/ w[j].timestamp = w[i].timestamp /\ j <= i})
            <= Cardinality(points) \div 2}

RECURSIVE MsSum(_, _)
\* the durations of the given points of w, added up, in milliseconds
MsSum(w, points) ==
    IF points = {} THEN 0
    ELSE LET i == CHOOSE p \in points : TRUE
         IN  (w[i].duration.n * 1000) \div w[i].duration.d + MsSum(w, points \ {i})

\* C15: _identify_performance_regressions flags a test name exactly when it has
\* at least 5 results in the window and, the results sorted by timestamp and
\* split at index floor(n/2) into an early and a recent part, mean(recent) >
\* 1.5 * mean(early) and mean(recent) > 1.0 second, both strictly, the first
\* comparison as the code computes it in doubles (call.fp where the exact
\* values are equal): early 0.5s and recent 0.9s is not flagged, early 1.0s
\* and recent 1.8s is.
C15_FlaggedIffSlowerByHalfAndOverASecond ==
    RegressionCalled =>
        LET w == WindowResults
        IN  /\ \A i \in 1..Len(ret) : \E j \in 1..Len(w) : w[j].name = ret[i]
            /\ \A name \in {w[i].name : i \in 1..Len(w)} :
                  LET points == PointsOf(w, name)
                      early == EarlyPoints(w, points)
                      recent == points \ early
                      recent_sum == MsSum(w, recent)
                      recent_by_early == recent_sum * Cardinality(early) * 2
                      early_by_recent == MsSum(w, early) * Cardinality(recent) * 3
                  IN  InSeq(name, ret) <=>
                          /\ Cardinality(points) >= 5
                          /\ \/ recent_by_early > early_by_recent
                             \/ /\ recent_by_early = early_by_recent
                                /\ call.fp[name] > 0
                          /\ recent_sum > 1000 * Cardinality(recent)

\* six points listed latest first: early mean 1.0s, recent mean 1.8s
C15_Witness ==
    /\ RegressionCalled
    /\ [i \in 1..Len(test_results) |-> test_results[i].duration]
           = <<Rat(9, 5), Rat(9, 5), Rat(9, 5), RatInt(1), RatInt(1), RatInt(1)>>
    /\ TimeLt(test_results[6].timestamp, test_results[1].timestamp)
    /\ ret = <<"A">>


\* the analyser holds exactly three builds, all in the window of the call, of
\* pass rates 60, 75 and 90 in the order of their timestamps
SixtyToNinety ==
    /\ Len(build_summaries) = 3
    /\ Len(AnalyzedBuilds) = 3
    /\ \E i, j, k \in 1..3 :
          /\ TimeLt(build_summaries[i].timestamp, build_summaries[j].timestamp)
          /\ TimeLt(build_summaries[j].timestamp, build_summaries[k].timestamp)
          /\ build_summaries[i].pass_rate = RatInt(60)
          /\ build_summaries[j].pass_rate = RatInt(75)
          /\ build_summaries[k].pass_rate = RatInt(90)

\* C16: with exactly three builds, all inside the 30-day window, of pass rates
\* 60, 75, 90 in chronological order, analyze_trends(30) returns pass_rate_trend
\* 'improving' and total_builds 3, whether the builds came from aggregation,
\* from the history import, or from both in any order of loading.
C16_SixtyToNinetyImproves ==
    (Analyzed /\ call.days_back = 30 /\ SixtyToNinety)
        => (ret.pass_rate_trend = "improving" /\ ret.total_builds = 3)


\* C17: after any sequence of load_results_from_directory calls, the
\* BuildSummary records derived by aggregation hold exactly one summary for
\* each build_number that occurs in test_results, and none for any other.
C17_OneSummaryPerBuild ==
    /\ \A i \in 1..Len(test_results) :
          Cardinality({j \in 1..Len(build_summaries) :
                          build_summaries[j].build_number
                              = test_results[i].build_number}) = 1
    /\ \A j \in 1..Len(build_summaries) :
          \E i \in 1..Len(test_results) :
              test_results[i].build_number = build_summaries[j].build_number


Parsed == call.op = "_parse_test_result" /\ call.returned

\* C18: every TestResult produced by _parse_test_result has duration >= 0; a
\* record whose stop is earlier than its start is accepted and yields duration
\* 0, never a negative duration.
C18_DurationNotNegative ==
    (Parsed /\ ret # None) =>
        /\ RatLe(RatInt(0), ret[1].duration)
        /\ TimeLt(Get(call.data, "stop", Epoch), Get(call.data, "start", Epoch))
              => ret[1].duration = RatInt(0)


MainReturned == call.op = "main" /\ call.returned

\* the result files of the run, and the entries of its history.json
FilesOfRun == IF call.results_dir.exists THEN call.results_dir.files ELSE <<>>

EntriesOfRun ==
    IF call.history_dir.exists /\ call.history_dir.file = "json"
    THEN call.history_dir.history_data
    ELSE <<>>

NoBuildReported ==
    /\ ret.total_builds = 0
    /\ ret.pass_rate_trend = "unknown"
    /\ ret.duration_trend = "unknown"

\* a result file that cannot be read, or whose record has neither a name nor a
\* start or stop
LacksNameAndTiming(file) ==
    \/ file = Unreadable
    \/ DOMAIN file[1] \cap {"name", "fullName", "start", "stop"} = {}

\* C19 as the specification words it: a run whose inputs are empty or hold
\* only records lacking the name and timing fields, the empty JSON object for
\* one, completes and analyze_trends reports total_builds 0 and both trends
\* 'unknown'.
C19_NothingFromRecordsLackingFields ==
    (/\ MainReturned
     /\ \A i \in 1..Len(FilesOfRun) : LacksNameAndTiming(FilesOfRun[i])
     /\ \A i \in 1..Len(EntriesOfRun) : "time" \notin DOMAIN EntriesOfRun[i])
        => NoBuildReported

\* a result file on which the load or the parse raises: it cannot be read, or
\* one of its labels lacks its name or its value
FailsToParse(file) ==
    \/ file = Unreadable
    \/ LET labels == Get(file[1], "labels", <<>>)
       IN  \E i \in 1..Len(labels) : ~({"name", "value"} \subseteq DOMAIN labels[i])

\* a history entry on which the parse raises: its time or its statistic is null
EntryFailsToParse(entry) ==
    \/ ("time" \in DOMAIN entry /\ entry.time = JsonNull)
    \/ ("statistic" \in DOMAIN entry /\ entry.statistic = JsonNull)

\* C19: a run whose inputs are empty or hold only records that fail to parse
\* completes, keeps nothing, and analyze_trends reports total_builds 0 and
\* both trends 'unknown'; an empty JSON object among the result files or the
\* history entries does not fail to parse, and counts as a build.
C19_NothingFromRecordsThatFailToParse ==
    MainReturned =>
        /\ (/\ \A i \in 1..Len(FilesOfRun) : FailsToParse(FilesOfRun[i])
            /\ \A i \in 1..Len(EntriesOfRun) : EntryFailsToParse(EntriesOfRun[i]))
               => /\ NoBuildReported
                  /\ test_results = <<>>
                  /\ build_summaries = <<>>
        /\ (\/ \E i \in 1..Len(FilesOfRun) : FilesOfRun[i] = EmptyObject
            \/ \E i \in 1..Len(EntriesOfRun) : EntriesOfRun[i] = HistoryEmpty)
               => ret.total_builds >= 1

\* a run on two files and one history entry, none of which parses
C19_Witness ==
    /\ MainReturned
    /\ Len(FilesOfRun) = 2
    /\ \A i \in 1..Len(FilesOfRun) : FailsToParse(FilesOfRun[i])
    /\ Len(EntriesOfRun) = 1
    /\ EntryFailsToParse(EntriesOfRun[1])
    /\ NoBuildReported


HistoryParsed == call.op = "_parse_history_data" /\ call.returned

\* the entries of the feed that parse, in feed order
WellFormedEntries ==
    SelectSeq(call.history_data, LAMBDA entry : ~EntryFailsToParse(entry))

\* the summary is that of the history entry
SummaryOfEntry(summary, entry) ==
    /\ summary.build_number
           = IF "buildOrder" \in DOMAIN entry THEN ToString(entry.buildOrder)
             ELSE "unknown"
    /\ summary.timestamp
           = IF /\ "time" \in DOMAIN entry
                /\ "start" \in DOMAIN entry.time
                /\ entry.time.start # Epoch
             THEN entry.time.start ELSE now
    /\ summary.total_tests
           = IF "statistic" \in DOMAIN entry /\ "total" \in DOMAIN entry.statistic
             THEN entry.statistic.total ELSE 0

\* C20: in _parse_history_data an entry that fails to parse appends nothing and
\* does not stop the import: the summaries appended to those held before are
\* exactly those of the well-formed entries, in feed order, well-formed entries
\* after a malformed one included, and the call returns.
C20_AppendsTheWellFormedEntries ==
    HistoryParsed =>
        /\ Len(build_summaries) = Len(call.held) + Len(WellFormedEntries)
        /\ SubSeq(build_summaries, 1, Len(call.held)) = call.held
        /\ \A k \in 1..Len(WellFormedEntries) :
              SummaryOfEntry(build_summaries[Len(call.held) + k], WellFormedEntries[k])

\* a feed with a well-formed entry on either side of a malformed one
C20_Witness ==
    /\ HistoryParsed
    /\ call.history_data = <<History3, HistoryNullTime, History1>>
    /\ Len(call.held) = 1
    /\ Len(build_summaries) = 3
    /\ build_summaries[2].build_number = "3"
    /\ build_summaries[3].build_number = "1"


ResultsLoaded == call.op = "load_results_from_directory"

\* the result files the call went through
FilesLoaded == IF call.results_dir.exists THEN call.results_dir.files ELSE <<>>

\* C21: in load_results_from_directory a raw record that cannot be read or
\* parsed contributes no TestResult, and all other records of the batch are
\* still ingested: test_results is what was held before followed by one
\* TestResult per parsable record, in file order, and the call never raises
\* because of one bad record.
C21_BadRecordNeverFatal ==
    ResultsLoaded =>
        LET parsable == SelectSeq(FilesLoaded, LAMBDA file : ~FailsToParse(file))
            held == Len(call.held_results)
        IN  /\ ~call.raised
            /\ Len(test_results) = held + Len(parsable)
            /\ SubSeq(test_results, 1, held) = call.held_results
            /\ \A k \in 1..Len(parsable) :
                  test_results[held + k].name
                      = Get(parsable[k][1], "fullName",
                            Get(parsable[k][1], "name", "Unknown"))


HistoryLoaded == call.op = "load_history_from_directory"

\* the call was given a location that does not exist
MissingLocation ==
    \/ ResultsLoaded /\ ~call.results_dir.exists
    \/ HistoryLoaded /\ ~call.history_dir.exists

\* C22: load_results_from_directory or load_history_from_directory called with
\* a location that does not exist returns normally and leaves test_results and
\* build_summaries as they were: nothing is aggregated again, nothing sorted.
C22_MissingLocationChangesNothing ==
    MissingLocation =>
        /\ call.returned
        /\ ~call.raised
        /\ test_results = call.held_results
        /\ build_summaries = call.held_summaries

\* the results directory is missing on an analyser that holds results and
\* their summaries
C22_Witness ==
    /\ ResultsLoaded
    /\ MissingLocation
    /\ call.held_results # <<>>
    /\ call.held_summaries # <<>>
    /\ build_summaries = call.held_summaries


\* the labels of the record parsed, when it has them well formed
LabelNames ==
    LET labels == Get(call.data, "labels", <<>>)
    IN  {labels[i].name : i \in 1..Len(labels)}

\* C23 as the specification words it: for a raw record whose labels lack
\* 'build', 'branch' or 'framework', _parse_test_result sets the corresponding
\* field (build_number, branch, framework) to 'unknown', whatever framework
\* the analyser was constructed with.
C23_MissingLabelsAreUnknown ==
    (Parsed /\ ret # None) =>
        /\ "build" \notin LabelNames => ret[1].build_number = "unknown"
        /\ "branch" \notin LabelNames => ret[1].branch = "unknown"
        /\ "framework" \notin LabelNames => ret[1].framework = "unknown"

\* C23: for a raw record whose labels lack 'build' or 'branch',
\* _parse_test_result sets build_number or branch to 'unknown'; for one whose
\* labels lack 'framework' it sets framework to the framework the analyser
\* was constructed with.
C23_MissingFrameworkIsTheAnalysers ==
    (Parsed /\ ret # None) =>
        /\ "build" \notin LabelNames => ret[1].build_number = "unknown"
        /\ "branch" \notin LabelNames => ret[1].branch = "unknown"
        /\ "framework" \notin LabelNames => ret[1].framework = call.framework

\* a record with a branch label only, parsed by an analyser of framework
\* 'pytest'
C23_Witness ==
    /\ Parsed
    /\ ret # None
    /\ LabelNames = {"branch"}
    /\ call.framework = "pytest"
    /\ ret[1].framework = "pytest"
    /\ ret[1].build_number = "unknown"
    /\ ret[1].branch = "dev"


\* what the analyser held when the loads of the run were done
LoadedByRun ==
    LET loaded == load_results_from_directory(call.results_dir, <<>>, <<>>,
                                              Framework, now)
    IN  <<loaded[1],
          load_history_from_directory(call.history_dir, loaded[2], Framework, now)>>

\* the key of the window in the trends of the report
WindowKey(days_back) == ToString(days_back) \o "_days"

C30_FormatSelectsTheFiles ==
    MainReturned =>
        /\ call.format_type \in {"json", "all"}
              => /\ "trend_analysis.json" \in DOMAIN output_dir
                 /\ DOMAIN output_dir["trend_analysis.json"].trends
                        = {"7_days", "30_days", "90_days"}
        /\ call.format_type \in {"html", "all"}
              => "trend_analysis.html" \in DOMAIN output_dir


\* the sum of total_tests over the summaries
RECURSIVE TotalTests(_)
TotalTests(summaries) ==
    IF summaries = <<>> THEN 0
    ELSE summaries[1].total_tests + TotalTests(Tail(summaries))

\* the summary is the one aggregation makes of the results held for the build
SummaryOfBuild(summary, build_number) ==
    LET of_build == {i \in 1..Len(test_results) :
                        test_results[i].build_number = build_number}
        passed == Cardinality({i \in of_build : test_results[i].status = "passed"})
        durations == SelectSeq(test_results, LAMBDA r : r.build_number = build_number)
    IN  /\ summary.build_number = build_number
        /\ summary.total_tests = Cardinality(of_build)
        /\ \E i \in of_build :
              /\ summary.timestamp = test_results[i].timestamp
              /\ \A j \in of_build :
                    TimeLe(test_results[j].timestamp, test_results[i].timestamp)
        /\ summary.duration
               = RatSum([i \in 1..Len(durations) |-> durations[i].duration])
        /\ summary.pass_rate = RatMul(Rat(passed, Cardinality(of_build)), RatInt(100))

\* how many times the summary occurs in the list
Occurrences(summaries, summary) ==
    Cardinality({j \in 1..Len(summaries) : summaries[j] = summary})

InWindow ==
    {i \in 1..Len(build_summaries) :
        TimeLe(CutoffDate(call.clock, call.days_back), build_summaries[i].timestamp)}

\* the sum of the field over the summaries in the window
SumInWindow(field) ==
    SumTo([i \in 1..Len(build_summaries) |->
              IF i \in InWindow THEN build_summaries[i][field] ELSE RatInt(0)],
          Len(build_summaries))

\* C26: when at least one BuildSummary lies in the window, analyze_trends
\* returns total_builds equal to the number of stored summaries with timestamp
\* >= now - days_back, summaries that share a build_number each counted, and
\* average_pass_rate and average_duration equal to the arithmetic means of
\* pass_rate and duration over exactly those summaries.
C26_CountAndMeansOverWindow ==
    (Analyzed /\ InWindow # {}) =>
        /\ ret.total_builds = Cardinality(InWindow)
        /\ RatMul(ret.average_pass_rate, RatInt(Cardinality(InWindow)))
               = SumInWindow("pass_rate")
        /\ RatMul(ret.average_duration, RatInt(Cardinality(InWindow)))
               = SumInWindow("duration")

\* two summaries of one build_number in the window, of different pass rates,
\* and a summary outside the window
C26_Witness ==
    /\ Analyzed
    /\ \E i, j \in InWindow :
          /\ i # j
          /\ build_summaries[i].build_number = build_summaries[j].build_number
          /\ build_summaries[i].pass_rate # build_summaries[j].pass_rate
    /\ Cardinality(InWindow) < Len(build_summaries)
    /\ ret.total_builds = Cardinality(InWindow)


\* the places in test_results of the failed results in the window of the call
FailedInWindow ==
    {i \in 1..Len(test_results) :
        /\ test_results[i].status = "failed"
        /\ TimeLe(CutoffDate(call.clock, call.days_back), test_results[i].timestamp)}

\* C27: _analyze_failure_categories returns a mapping whose keys are exactly
\* the categories of the in-window results with status 'failed' and whose
\* values are their counts: the values sum to the number of in-window failed
\* results, results that are broken, skipped or passed contribute nothing, and
\* 'passed' is never a key.
C27_CategoriesOfFailedInWindow ==
    (Analyzed /\ ret.total_builds > 0) =>
        LET counts == ret.failure_categories
        IN  /\ DOMAIN counts = {test_results[i].category : i \in FailedInWindow}
            /\ \A c \in DOMAIN counts :
                  counts[c] = Cardinality({i \in FailedInWindow :
                                              test_results[i].category = c})
            /\ "passed" \notin DOMAIN counts

\* failures of three categories in the window, next to broken runs of a
\* fourth category and to passed runs
C27_Witness ==
    /\ Analyzed
    /\ DOMAIN ret.failure_categories
           = {"product_defect", "infrastructure", "unknown_failure"}
    /\ \E i \in 1..Len(test_results) :
          /\ test_results[i].status = "broken"
          /\ test_results[i].category = "test_defect"
          /\ TimeLe(CutoffDate(call.clock, call.days_back), test_results[i].timestamp)
    /\ \E i \in 1..Len(test_results) : test_results[i].status = "passed"

\* no element occurs twice in the list
NoRepeat(list) == \A i, j \in 1..Len(list) : i # j => list[i] # list[j]

Covered(r) ==
    \E i \in 1..Len(build_summaries) :
        /\ build_summaries[i].build_number = r.build_number
        /\ TimeLe(r.timestamp, build_summaries[i].timestamp)

\* C29: after any sequence of load_results_from_directory and
\* load_history_from_directory calls, every TestResult of test_results is
\* covered by a BuildSummary of build_summaries of the same build_number and
\* of a timestamp not earlier than its own; hence a window that holds a
\* TestResult holds a BuildSummary too, and analyze_trends does not take its
\* zeroed early return while results lie in the window.
C29_EveryResultHasItsSummary ==
    /\ \A p \in 1..Len(test_results) : Covered(test_results[p])
    /\ \A days_back \in DaysBack :
          RecentResults(test_results, now, days_back) # <<>>
              => RecentBuilds(build_summaries, now, days_back) # <<>>

====
